---- MODULE Spec2Model ----
(***************************************************************************)
(* Client-side status, payment, cancellation, notes and photo components   *)
(* of the mobile-mechanic app, modelled as state machines.                 *)
(*                                                                         *)
(* The components are leaves that share no state and are composed by no    *)
(* code of the repository, so a behaviour exercises one mounted component  *)
(* (variable mounted) with props drawn at Init.  The JavaScript runtime is *)
(* modelled by two structures: pending, the promises returned by injected  *)
(* callbacks and platform APIs that handlers are awaiting, and alerts, the *)
(* queue of native Alert.alert dialogs.  A promise settles in one step     *)
(* (Settle) and the awaiting handler resumes in the next (the *Continue    *)
(* actions); no user event is delivered between the two (microtask).       *)
(***************************************************************************)
EXTENDS Integers, Sequences, FiniteSets, TLC

\* ------------------------------------------------------------------ bounds
\* longest text a user types into a text field
MaxLen == 2
\* most promises awaited at one time
MaxInFlight == 2
\* most Marker objects LiveJobMap creates
MaxMarkers == 3

\* ------------------------------------------------------------------- text
Chars == {" ", "a"}

Strings == UNION {[1..n -> Chars] : n \in 0..MaxLen}

\* String.prototype.trim: drop leading and trailing whitespace
RECURSIVE Trim(_)
Trim(s) ==
    IF s = <<>> THEN s
    ELSE IF Head(s) = " " THEN Trim(Tail(s))
    ELSE IF s[Len(s)] = " " THEN Trim(SubSeq(s, 1, Len(s) - 1))
    ELSE s

\* !s.trim()
Blank(s) == Trim(s) = <<>>

\* a character sequence as a string value
RECURSIVE Str(_)
Str(s) == IF s = <<>> THEN "" ELSE Head(s) \o Str(Tail(s))

\* Array.prototype.find: first element satisfying the test, or "undefined"
RECURSIVE FindById(_, _)
FindById(list, id) ==
    IF list = <<>> THEN "undefined"
    ELSE IF Head(list).id = id THEN Head(list)
    ELSE FindById(Tail(list), id)

\* Array.prototype.filter(s => s.id !== id)
RECURSIVE FilterOutId(_, _)
FilterOutId(list, id) ==
    IF list = <<>> THEN <<>>
    ELSE IF Head(list).id # id THEN <<Head(list)>> \o FilterOutId(Tail(list), id)
    ELSE FilterOutId(Tail(list), id)

Ids(list) == {list[i].id : i \in 1..Len(list)}

\* String.prototype.toUpperCase on one character
LowerCase == <<"a", "b", "c", "d", "e", "f", "g", "h", "i", "j", "k", "l", "m",
               "n", "o", "p", "q", "r", "s", "t", "u", "v", "w", "x", "y", "z">>

UpperCase == <<"A", "B", "C", "D", "E", "F", "G", "H", "I", "J", "K", "L", "M",
               "N", "O", "P", "Q", "R", "S", "T", "U", "V", "W", "X", "Y", "Z">>

toUpperCase(c) ==
    IF \E i \in 1..Len(LowerCase) : LowerCase[i] = c
    THEN UpperCase[CHOOSE i \in 1..Len(LowerCase) : LowerCase[i] = c]
    ELSE c

\* s.charAt(0).toUpperCase() + s.slice(1)
Capitalize(s) ==
    IF s = <<>> THEN <<>> ELSE <<toUpperCase(Head(s))>> \o Tail(s)

\* a history entry as the caller supplies it: status id (as characters) and
\* date
HistoryItem(status, date) == [status |-> status, date |-> date]

\* ------------------------------------------------------------- components
Components == {"JSM", "PST", "CJM", "MN", "PU", "QF", "LPC"}

VARIABLES
    mounted,                  \* the component instance on screen
    pending,                  \* promises being awaited, in order of creation
    alerts,                   \* Alert.alert dialogs, head is on screen
    event,                    \* the operation executed by the last step
    unhandledRejection,       \* a rejection escaped an async handler
    \* JobStatusManager: props
    jsm_currentStatus, jsm_customStatuses, jsm_isMechanic, jsm_statusHistory,
    \* JobStatusManager: state
    jsm_loading, jsm_showAddStatusModal,
    jsm_newStatusLabel, jsm_newStatusDescription, jsm_newStatusColor,
    jsm_showHistory,
    \* PaymentStatusTracker: props
    pst_currentStatus, pst_isMechanic, pst_paymentHistory,
    \* PaymentStatusTracker: state
    pst_loading, pst_selectedStatus, pst_showHistory,
    \* CancelJobModal: props
    cjm_visible, cjm_isCustomer,
    \* CancelJobModal: state
    cjm_selectedReason, cjm_otherReason, cjm_loading,
    \* CancelJobModal: onClose invocations since the modal was opened
    cjm_onCloseCalls,
    \* MechanicNotes: props
    mn_readOnly, mn_existingNotes,
    \* MechanicNotes: state
    mn_newNote, mn_loading, mn_expandedNoteId,
    \* PhotoUpload: props
    pu_readOnly, pu_existingPhotos,
    \* PhotoUpload: state
    pu_photos, pu_uploading, pu_selectedCategory, pu_caption,
    \* QuoteForm: state
    qf_formData, qf_error, qf_success, qf_loading,
    \* LicensePlateCapture: props
    lpc_visible,
    \* LicensePlateCapture: state
    lpc_loading, lpc_capturedImage, lpc_extractedPlate, lpc_vehicleInfo, lpc_step,
    \* LiveChatWidget: mounting phase, state
    lcw_phase, lcw_isVisible, lcw_isExpanded, lcw_currentSession, lcw_messages,
    lcw_inputText, lcw_isLoading, lcw_isTyping, lcw_unreadCount, lcw_sessions,
    lcw_showSessionList,
    \* LiveChatWidget: the chat service's sessions, the intervals and timeouts
    \* set and not cleared, the sessions closed and not selected since
    lcw_server, lcw_timers, lcw_timeouts, lcw_closed,
    \* LiveJobMap: state, the jobMarkers the subscribed callback closed over,
    \* the Marker objects created, the latest location list
    ljm_map, ljm_loading, ljm_jobMarkers, ljm_closure, ljm_markers, ljm_latest,
    \* App: state, the browser location
    app_user, app_loading, app_path

rtVars == <<mounted, pending, alerts, event, unhandledRejection>>

jsmProps == <<jsm_currentStatus, jsm_customStatuses, jsm_isMechanic,
              jsm_statusHistory>>

jsmState == <<jsm_loading, jsm_showAddStatusModal,
              jsm_newStatusLabel, jsm_newStatusDescription, jsm_newStatusColor,
              jsm_showHistory>>

jsmVars == <<jsmProps, jsmState>>

pstProps == <<pst_currentStatus, pst_isMechanic, pst_paymentHistory>>

pstState == <<pst_loading, pst_selectedStatus, pst_showHistory>>

pstVars == <<pstProps, pstState>>

cjmProps == <<cjm_visible, cjm_isCustomer>>

cjmState == <<cjm_selectedReason, cjm_otherReason, cjm_loading>>

cjmVars == <<cjmProps, cjmState, cjm_onCloseCalls>>

mnProps == <<mn_readOnly, mn_existingNotes>>

mnState == <<mn_newNote, mn_loading, mn_expandedNoteId>>

mnVars == <<mnProps, mnState>>

puProps == <<pu_readOnly, pu_existingPhotos>>

puState == <<pu_photos, pu_uploading, pu_selectedCategory, pu_caption>>

puVars == <<puProps, puState>>

qfVars == <<qf_formData, qf_error, qf_success, qf_loading>>

lpcState == <<lpc_loading, lpc_capturedImage, lpc_extractedPlate, lpc_vehicleInfo,
              lpc_step>>

lpcVars == <<lpc_visible, lpcState>>

lcwState == <<lcw_isVisible, lcw_isExpanded, lcw_currentSession, lcw_messages,
              lcw_inputText, lcw_isLoading, lcw_isTyping, lcw_unreadCount, lcw_sessions,
              lcw_showSessionList>>

lcwVars == <<lcw_phase, lcwState, lcw_server, lcw_timers, lcw_timeouts, lcw_closed>>

ljmVars == <<ljm_map, ljm_loading, ljm_jobMarkers, ljm_closure, ljm_markers, ljm_latest>>

appVars == <<app_user, app_loading, app_path>>

pageVars == <<lcwVars, ljmVars, appVars>>

widgetVars == <<jsmVars, pstVars, cjmVars, mnVars, puVars, qfVars, lpcVars>>

compVars == <<widgetVars, pageVars>>

notLCW == <<unhandledRejection, widgetVars, ljmVars, appVars>>

notLJM == <<unhandledRejection, widgetVars, lcwVars, appVars>>

notAPP == <<unhandledRejection, widgetVars, lcwVars, ljmVars>>

notJSM == <<unhandledRejection, pstVars, cjmVars, mnVars, puVars, qfVars, lpcVars, pageVars>>

notPST == <<unhandledRejection, jsmVars, cjmVars, mnVars, puVars, qfVars, lpcVars, pageVars>>

notCJM == <<unhandledRejection, jsmVars, pstVars, mnVars, puVars, qfVars, lpcVars, pageVars>>

notMN == <<unhandledRejection, jsmVars, pstVars, cjmVars, puVars, qfVars, lpcVars, pageVars>>

notPU == <<jsmVars, pstVars, cjmVars, mnVars, qfVars, lpcVars, pageVars>>

notLPC == <<unhandledRejection, jsmVars, pstVars, cjmVars, mnVars, puVars, qfVars, pageVars>>

notQF == <<unhandledRejection, jsmVars, pstVars, cjmVars, mnVars, puVars, lpcVars, pageVars>>

vars == <<rtVars, compVars>>

\* ---------------------------------------------------------------- runtime
Ev(op, arg) == [op |-> op, arg |-> arg]

\* ctx: the state the awaiting handler closed over when it made the call
Promise(fn, arg, ctx) == [fn |-> fn, arg |-> arg, ctx |-> ctx, st |-> "pending", val |-> TRUE]

AlertBox(title, msg, arg) == [title |-> title, msg |-> msg, arg |-> arg]

\* a settled promise whose awaiting handler has not resumed yet
MicrotaskPending == \E i \in 1..Len(pending) : pending[i].st # "pending"

\* a user event reaches the component: no dialog on screen, no microtask due
UIReady(c) == mounted = c /\ alerts = <<>> /\ ~MicrotaskPending

RemoveAt(s, i) == SubSeq(s, 1, i - 1) \o SubSeq(s, i + 1, Len(s))

\* what processLicensePlateCapture resolves to: a result with year, make and
\* model, a result with the plate only, or null (capture cancelled)
CaptureResults == {"full", "partial", "null"}

\* what getChatMessages resolves to: messages all read, or messages of which
\* some are unread and not sent by the user
MessageResults == {"read", "unread"}

\* what getUnreadMessageCount resolves to
UnreadCounts == {0, 1}

\* values an awaited call can resolve to
ResolveValues(fn) ==
    IF fn \in {"MN.onAddNote", "PU.onUploadPhoto", "QF.addQuoteToServiceRequest",
               "PU.requestCameraPermissionsAsync", "PU.requestMediaLibraryPermissionsAsync",
               "PU.launchCameraAsync", "PU.launchImageLibraryAsync"}
    THEN {TRUE, FALSE}
    ELSE IF fn = "LPC.processLicensePlateCapture"
    THEN CaptureResults
    ELSE IF fn = "LCW.getChatMessages"
    THEN MessageResults
    ELSE IF fn = "LCW.getUnreadMessageCount"
    THEN UnreadCounts
    ELSE {TRUE}

\* a timer never rejects
Outcomes(fn) == IF fn = "PU.uploadDelay" THEN {"resolved"} ELSE {"resolved", "rejected"}

\* the environment settles an awaited promise
Settle(i, st, val) ==
    /\ ~MicrotaskPending
    /\ pending[i].st = "pending"
    /\ pending' = [pending EXCEPT ![i].st = st, ![i].val = val]
    /\ event' = Ev("Settle", pending[i].fn)
    /\ UNCHANGED <<mounted, alerts, unhandledRejection, compVars>>

\* the user acknowledges a single-button alert
DismissAlert ==
    /\ alerts # <<>>
    /\ ~MicrotaskPending
    /\ Head(alerts).title \in {"Error", "Success", "Custom Status Created",
                              "Permission Denied", "Partial Success", "Cancelled"}
    /\ alerts' = Tail(alerts)
    /\ event' = Ev("DismissAlert", "")
    /\ UNCHANGED <<mounted, pending, unhandledRejection, compVars>>

\* ------------------------------------------------------- JobStatusManager
Status(id, label) == [id |-> id, label |-> label, isCustom |-> FALSE]

DEFAULT_STATUSES == <<
    Status("pending", "Pending"),
    Status("quoted", "Quoted"),
    Status("accepted", "Accepted"),
    Status("in_progress", "In Progress"),
    Status("parts_needed", "Parts Needed"),
    Status("completed", "Completed"),
    Status("cancelled", "Cancelled") >>

CustomStatus(id, label) == [id |-> id, label |-> label, isCustom |-> TRUE]

\* caller-supplied custom lists: none, a new id, a duplicate of a built-in id
\* and a custom "cancelled"
CustomStatusInputs == {
    <<>>,
    <<CustomStatus("towing", "Towing")>>,
    <<CustomStatus("quoted", "Requoted"), CustomStatus("cancelled", "Void")>> }

JobStatusInputs == {"pending", "completed", "cancelled", "towing", "archived"}

colorOptions == <<"#2196f3", "#4caf50", "#ff9800", "#9c27b0", "#f44336",
                  "#607d8b", "#795548", "#009688", "#673ab7", "#3f51b5">>

\* swatches the user presses
ColorInputs == {colorOptions[1], colorOptions[5]}

\* descriptions the user types: none, a word
DescriptionInputs == { <<>>, <<"a">> }

\* the catalog with the custom list ahead of the built-in list
allStatuses_CustomFirst == jsm_customStatuses \o DEFAULT_STATUSES

allStatuses == DEFAULT_STATUSES \o jsm_customStatuses

\* the options list without the filter on 'cancelled'
jsmStatusOptions_Unfiltered == allStatuses

\* data of the status options FlatList
jsmStatusOptions == FilterOutId(allStatuses, "cancelled")

\* caller-supplied job histories: none, and one that is out of date order,
\* repeats an entry and holds ids of built-in, custom and unknown statuses
\* ("quoted", "towing", "lost", "2nd", "")
StatusHistoryInputs == {
    <<>>,
    << HistoryItem(<<"q", "u", "o", "t", "e", "d">>, 3),
       HistoryItem(<<"t", "o", "w", "i", "n", "g">>, 1),
       HistoryItem(<<"l", "o", "s", "t">>, 2),
       HistoryItem(<<"q", "u", "o", "t", "e", "d">>, 3),
       HistoryItem(<<"2", "n", "d">>, 5),
       HistoryItem(<<>>, 4) >> }

\* allStatuses.find(s => s.id === currentStatus) || DEFAULT_STATUSES[0]
statusObj ==
    IF jsm_currentStatus \in Ids(allStatuses)
    THEN FindById(allStatuses, jsm_currentStatus)
    ELSE DEFAULT_STATUSES[1]

\* renderStatusHistoryItem with the raw id as the label of an unknown status
renderStatusHistoryItem_RawLabel(item) ==
    [status |-> IF Str(item.status) \in Ids(allStatuses)
                THEN FindById(allStatuses, Str(item.status))
                ELSE [id |-> Str(item.status),
                      label |-> Str(item.status),
                      color |-> "#999"],
     date |-> item.date]

\* the status definition renderStatusHistoryItem displays for an entry
renderStatusHistoryItem(item) ==
    [status |-> IF Str(item.status) \in Ids(allStatuses)
                THEN FindById(allStatuses, Str(item.status))
                ELSE [id |-> Str(item.status),
                      label |-> Str(Capitalize(item.status)),
                      color |-> "#999"],
     date |-> item.date]

\* the history list with the newest entry first
JSM_historyList_Reversed ==
    IF Len(jsm_statusHistory) > 0 /\ jsm_showHistory
    THEN [i \in 1..Len(jsm_statusHistory) |->
              renderStatusHistoryItem(
                  jsm_statusHistory[Len(jsm_statusHistory) + 1 - i])]
    ELSE <<>>

\* the history FlatList: data={statusHistory}, one row per entry
JSM_historyList ==
    IF Len(jsm_statusHistory) > 0 /\ jsm_showHistory
    THEN [i \in 1..Len(jsm_statusHistory) |->
              renderStatusHistoryItem(jsm_statusHistory[i])]
    ELSE <<>>

\* "Status History" header: rendered while the history is not empty; the
\* loading overlay and the add-status Modal cover it
JSM_ToggleHistory ==
    /\ UIReady("JSM")
    /\ Len(jsm_statusHistory) > 0
    /\ ~jsm_loading
    /\ ~jsm_showAddStatusModal
    /\ jsm_showHistory' = ~jsm_showHistory
    /\ event' = Ev("JSM.ToggleHistory", "")
    /\ UNCHANGED <<mounted, pending, alerts, jsmProps, jsm_loading,
                   jsm_showAddStatusModal, jsm_newStatusLabel,
                   jsm_newStatusDescription, jsm_newStatusColor, notJSM>>

\* handleUpdateStatus without the early return for the current status
JSM_handleUpdateStatus_NoGuard(newStatus) ==
    /\ mounted = "JSM"
    /\ event' = Ev("JSM.handleUpdateStatus", newStatus)
    /\ Len(pending) < MaxInFlight
    /\ jsm_loading' = TRUE
    /\ pending' = Append(pending, Promise("JSM.onUpdateStatus", newStatus,
                         [currentStatus |-> jsm_currentStatus]))
    /\ UNCHANGED <<alerts, jsmProps, jsm_showAddStatusModal,
                   jsm_newStatusLabel, jsm_newStatusDescription, jsm_newStatusColor>>
    /\ UNCHANGED <<mounted, notJSM>>
    /\ UNCHANGED jsm_showHistory

JSM_handleUpdateStatus(newStatus) ==
    /\ mounted = "JSM"
    /\ event' = Ev("JSM.handleUpdateStatus", newStatus)
    /\ IF newStatus = jsm_currentStatus
       THEN UNCHANGED <<pending, alerts, jsmVars>>
       ELSE /\ Len(pending) < MaxInFlight
            /\ jsm_loading' = TRUE
            /\ pending' = Append(pending, Promise("JSM.onUpdateStatus", newStatus,
                                 [currentStatus |-> jsm_currentStatus]))
            /\ UNCHANGED <<alerts, jsmProps, jsm_showAddStatusModal,
                           jsm_newStatusLabel, jsm_newStatusDescription,
                           jsm_newStatusColor>>
    /\ UNCHANGED <<mounted, notJSM>>
    /\ UNCHANGED jsm_showHistory

\* status option: disabled={loading || currentStatus === item.id}; the
\* add-status Modal covers the options while it is visible
JSM_PressStatusOption(id) ==
    /\ UIReady("JSM")
    /\ jsm_isMechanic
    /\ ~jsm_showAddStatusModal
    /\ id \in Ids(jsmStatusOptions)
    /\ ~(jsm_loading \/ jsm_currentStatus = id)
    /\ JSM_handleUpdateStatus(id)

\* the continuation with setLoading(false) in the catch block only
JSM_UpdateStatusContinue_BusyKept ==
    /\ mounted = "JSM"
    /\ \E i \in 1..Len(pending) :
        /\ pending[i].fn = "JSM.onUpdateStatus"
        /\ pending[i].st # "pending"
        /\ pending' = RemoveAt(pending, i)
        /\ event' = Ev("JSM.onUpdateStatus." \o pending[i].st, pending[i])
        /\ IF pending[i].st = "rejected"
           THEN /\ alerts' = Append(alerts, AlertBox("Error", "Failed to update job status", ""))
                /\ jsm_loading' = FALSE
           ELSE UNCHANGED <<alerts, jsm_loading>>
    /\ UNCHANGED <<mounted, jsmProps, jsm_showAddStatusModal, jsm_newStatusLabel,
                   jsm_newStatusDescription, jsm_newStatusColor, notJSM>>
    /\ UNCHANGED jsm_showHistory

\* handleUpdateStatus resumes after await onUpdateStatus(newStatus)
JSM_UpdateStatusContinue ==
    /\ mounted = "JSM"
    /\ \E i \in 1..Len(pending) :
        /\ pending[i].fn = "JSM.onUpdateStatus"
        /\ pending[i].st # "pending"
        /\ pending' = RemoveAt(pending, i)
        /\ event' = Ev("JSM.onUpdateStatus." \o pending[i].st, pending[i])
        /\ alerts' = IF pending[i].st = "rejected"
                     THEN Append(alerts, AlertBox("Error", "Failed to update job status", ""))
                     ELSE alerts
    /\ jsm_loading' = FALSE
    /\ UNCHANGED <<mounted, jsmProps, jsm_showAddStatusModal, jsm_newStatusLabel,
                   jsm_newStatusDescription, jsm_newStatusColor, notJSM>>
    /\ UNCHANGED jsm_showHistory

\* list footer "Custom": disabled={loading}
JSM_PressCustom ==
    /\ UIReady("JSM")
    /\ jsm_isMechanic
    /\ ~jsm_showAddStatusModal
    /\ ~jsm_loading
    /\ jsm_showAddStatusModal' = TRUE
    /\ event' = Ev("JSM.PressCustom", "")
    /\ UNCHANGED <<mounted, pending, alerts, jsmProps, jsm_loading, jsm_newStatusLabel,
                   jsm_newStatusDescription, jsm_newStatusColor, notJSM>>
    /\ UNCHANGED jsm_showHistory

\* close icon, Cancel and onRequestClose of the add-status Modal
JSM_CloseAddStatusModal ==
    /\ UIReady("JSM")
    /\ jsm_showAddStatusModal
    /\ jsm_showAddStatusModal' = FALSE
    /\ event' = Ev("JSM.CloseAddStatusModal", "")
    /\ UNCHANGED <<mounted, pending, alerts, jsmProps, jsm_loading, jsm_newStatusLabel,
                   jsm_newStatusDescription, jsm_newStatusColor, notJSM>>
    /\ UNCHANGED jsm_showHistory

JSM_ChangeLabel(t) ==
    /\ UIReady("JSM")
    /\ jsm_showAddStatusModal
    /\ jsm_newStatusLabel' = t
    /\ event' = Ev("JSM.ChangeLabel", "")
    /\ UNCHANGED <<mounted, pending, alerts, jsmProps, jsm_loading, jsm_showAddStatusModal,
                   jsm_newStatusDescription, jsm_newStatusColor, notJSM>>
    /\ UNCHANGED jsm_showHistory

JSM_ChangeDescription(t) ==
    /\ UIReady("JSM")
    /\ jsm_showAddStatusModal
    /\ jsm_newStatusDescription' = t
    /\ event' = Ev("JSM.ChangeDescription", "")
    /\ UNCHANGED <<mounted, pending, alerts, jsmProps, jsm_loading, jsm_showAddStatusModal,
                   jsm_newStatusLabel, jsm_newStatusColor, notJSM>>
    /\ UNCHANGED jsm_showHistory

JSM_PressColor(c) ==
    /\ UIReady("JSM")
    /\ jsm_showAddStatusModal
    /\ jsm_newStatusColor' = c
    /\ event' = Ev("JSM.PressColor", "")
    /\ UNCHANGED <<mounted, pending, alerts, jsmProps, jsm_loading, jsm_showAddStatusModal,
                   jsm_newStatusLabel, jsm_newStatusDescription, notJSM>>
    /\ UNCHANGED jsm_showHistory

\* handleAddCustomStatus without setNewStatusColor('#2196f3')
JSM_handleAddCustomStatus_ColorKept ==
    /\ mounted = "JSM"
    /\ event' = Ev("JSM.handleAddCustomStatus", Str(jsm_newStatusLabel))
    /\ IF Blank(jsm_newStatusLabel)
       THEN /\ alerts' = Append(alerts, AlertBox("Error", "Status label is required", ""))
            /\ UNCHANGED jsmState
       ELSE /\ jsm_showAddStatusModal' = FALSE
            /\ jsm_newStatusLabel' = <<>>
            /\ jsm_newStatusDescription' = <<>>
            /\ jsm_newStatusColor' = jsm_newStatusColor
            /\ alerts' = Append(alerts, AlertBox("Custom Status Created",
                   "In the full implementation, this would save the custom status to your account.", ""))
            /\ jsm_loading' = FALSE
    /\ UNCHANGED <<mounted, pending, jsmProps, notJSM>>
    /\ UNCHANGED jsm_showHistory

\* runs to completion without awaiting: setLoading(true) ... finally
\* setLoading(false)
JSM_handleAddCustomStatus ==
    /\ mounted = "JSM"
    /\ event' = Ev("JSM.handleAddCustomStatus", Str(jsm_newStatusLabel))
    /\ IF Blank(jsm_newStatusLabel)
       THEN /\ alerts' = Append(alerts, AlertBox("Error", "Status label is required", ""))
            /\ UNCHANGED jsmState
       ELSE /\ jsm_showAddStatusModal' = FALSE
            /\ jsm_newStatusLabel' = <<>>
            /\ jsm_newStatusDescription' = <<>>
            /\ jsm_newStatusColor' = colorOptions[1]
            /\ alerts' = Append(alerts, AlertBox("Custom Status Created",
                   "In the full implementation, this would save the custom status to your account.", ""))
            /\ jsm_loading' = FALSE
    /\ UNCHANGED <<mounted, pending, jsmProps, notJSM>>
    /\ UNCHANGED jsm_showHistory

\* "Add Status": disabled={!newStatusLabel.trim() || loading}
JSM_PressAddStatus ==
    /\ UIReady("JSM")
    /\ jsm_showAddStatusModal
    /\ ~(Blank(jsm_newStatusLabel) \/ jsm_loading)
    /\ JSM_handleAddCustomStatus

\* --------------------------------------------------- PaymentStatusTracker
PAYMENT_STATUSES == <<
    Status("unpaid", "Unpaid"),
    Status("pending", "Payment Pending"),
    Status("partial", "Partially Paid"),
    Status("paid", "Paid"),
    Status("refunded", "Refunded") >>

PaymentStatusInputs == {"unpaid", "partial", "paid", "disputed"}

\* caller-supplied payment histories: none, and one out of date order with
\* a repeated entry and ids "paid", "unpaid", "void", ""
PaymentHistoryInputs == {
    <<>>,
    << HistoryItem(<<"p", "a", "i", "d">>, 3),
       HistoryItem(<<"u", "n", "p", "a", "i", "d">>, 1),
       HistoryItem(<<"v", "o", "i", "d">>, 2),
       HistoryItem(<<"p", "a", "i", "d">>, 3),
       HistoryItem(<<>>, 4) >> }

\* PAYMENT_STATUSES.find(s => s.id === currentStatus) || PAYMENT_STATUSES[0]
PST_statusObj ==
    IF pst_currentStatus \in Ids(PAYMENT_STATUSES)
    THEN FindById(PAYMENT_STATUSES, pst_currentStatus)
    ELSE PAYMENT_STATUSES[1]

\* PAYMENT_STATUSES.find(s => s.id === item.status)?.label || item.status
PST_historyLabel(item) ==
    IF Str(item.status) \in Ids(PAYMENT_STATUSES)
    THEN FindById(PAYMENT_STATUSES, Str(item.status)).label
    ELSE Str(item.status)

\* paymentHistory.map(...): one row per entry
PST_historyList ==
    IF Len(pst_paymentHistory) > 0 /\ pst_showHistory
    THEN [i \in 1..Len(pst_paymentHistory) |->
              [label |-> PST_historyLabel(pst_paymentHistory[i]),
               date |-> pst_paymentHistory[i].date]]
    ELSE <<>>

\* "Payment History" header: rendered while the history is not empty; the
\* loading overlay covers it
PST_ToggleHistory ==
    /\ UIReady("PST")
    /\ Len(pst_paymentHistory) > 0
    /\ ~pst_loading
    /\ pst_showHistory' = ~pst_showHistory
    /\ event' = Ev("PST.ToggleHistory", "")
    /\ UNCHANGED <<mounted, pending, alerts, pstProps, pst_loading,
                   pst_selectedStatus, notPST>>

\* handleUpdateStatus with setSelectedStatus(newStatus) ahead of the await
PST_handleUpdateStatus_Optimistic(newStatus) ==
    /\ mounted = "PST"
    /\ event' = Ev("PST.handleUpdateStatus", newStatus)
    /\ IF newStatus = pst_currentStatus
       THEN UNCHANGED <<pending, alerts, pstVars>>
       ELSE /\ Len(pending) < MaxInFlight
            /\ pst_loading' = TRUE
            /\ pst_selectedStatus' = newStatus
            /\ pending' = Append(pending, Promise("PST.onUpdateStatus", newStatus,
                                 [currentStatus |-> pst_currentStatus,
                                  selectedStatus |-> pst_selectedStatus]))
            /\ UNCHANGED <<alerts, pstProps>>
    /\ UNCHANGED <<mounted, notPST>>
    /\ UNCHANGED pst_showHistory

PST_handleUpdateStatus(newStatus) ==
    /\ mounted = "PST"
    /\ event' = Ev("PST.handleUpdateStatus", newStatus)
    /\ IF newStatus = pst_currentStatus
       THEN UNCHANGED <<pending, alerts, pstVars>>
       ELSE /\ Len(pending) < MaxInFlight
            /\ pst_loading' = TRUE
            /\ pending' = Append(pending, Promise("PST.onUpdateStatus", newStatus,
                                 [currentStatus |-> pst_currentStatus,
                                  selectedStatus |-> pst_selectedStatus]))
            /\ UNCHANGED <<alerts, pstProps, pst_selectedStatus>>
    /\ UNCHANGED <<mounted, notPST>>
    /\ UNCHANGED pst_showHistory

\* status option: disabled={loading || currentStatus === status.id}
PST_PressStatusOption(id) ==
    /\ UIReady("PST")
    /\ pst_isMechanic
    /\ id \in Ids(PAYMENT_STATUSES)
    /\ ~(pst_loading \/ pst_currentStatus = id)
    /\ PST_handleUpdateStatus(id)

\* the continuation with setLoading(false) at the end of the try block
PST_UpdateStatusContinue_BusyKept ==
    /\ mounted = "PST"
    /\ \E i \in 1..Len(pending) :
        /\ pending[i].fn = "PST.onUpdateStatus"
        /\ pending[i].st # "pending"
        /\ pending' = RemoveAt(pending, i)
        /\ event' = Ev("PST.onUpdateStatus." \o pending[i].st, pending[i])
        /\ IF pending[i].st = "rejected"
           THEN /\ alerts' = Append(alerts, AlertBox("Error", "Failed to update payment status", ""))
                /\ UNCHANGED <<pst_selectedStatus, pst_loading>>
           ELSE /\ pst_selectedStatus' = pending[i].arg
                /\ pst_loading' = FALSE
                /\ UNCHANGED alerts
    /\ UNCHANGED <<mounted, pstProps, notPST>>
    /\ UNCHANGED pst_showHistory

\* the continuation without setSelectedStatus(newStatus)
PST_UpdateStatusContinue_NoMirror ==
    /\ mounted = "PST"
    /\ \E i \in 1..Len(pending) :
        /\ pending[i].fn = "PST.onUpdateStatus"
        /\ pending[i].st # "pending"
        /\ pending' = RemoveAt(pending, i)
        /\ event' = Ev("PST.onUpdateStatus." \o pending[i].st, pending[i])
        /\ alerts' = IF pending[i].st = "rejected"
                     THEN Append(alerts, AlertBox("Error", "Failed to update payment status", ""))
                     ELSE alerts
    /\ pst_loading' = FALSE
    /\ UNCHANGED <<mounted, pstProps, pst_selectedStatus, notPST>>
    /\ UNCHANGED pst_showHistory

\* handleUpdateStatus resumes after await onUpdateStatus(newStatus)
PST_UpdateStatusContinue ==
    /\ mounted = "PST"
    /\ \E i \in 1..Len(pending) :
        /\ pending[i].fn = "PST.onUpdateStatus"
        /\ pending[i].st # "pending"
        /\ pending' = RemoveAt(pending, i)
        /\ event' = Ev("PST.onUpdateStatus." \o pending[i].st, pending[i])
        /\ IF pending[i].st = "rejected"
           THEN /\ alerts' = Append(alerts, AlertBox("Error", "Failed to update payment status", ""))
                /\ UNCHANGED pst_selectedStatus
           ELSE /\ pst_selectedStatus' = pending[i].arg
                /\ UNCHANGED alerts
    /\ pst_loading' = FALSE
    /\ UNCHANGED <<mounted, pstProps, notPST>>
    /\ UNCHANGED pst_showHistory

\* runs to completion without awaiting
PST_handleSendReminder ==
    /\ mounted = "PST"
    /\ event' = Ev("PST.handleSendReminder", "")
    /\ alerts' = Append(alerts, AlertBox("Success", "Payment reminder sent to customer", ""))
    /\ pst_loading' = FALSE
    /\ UNCHANGED <<mounted, pending, pstProps, pst_selectedStatus, notPST>>
    /\ UNCHANGED pst_showHistory

\* reminder button: shown for unpaid or partial, disabled={loading}
PST_PressSendReminder ==
    /\ UIReady("PST")
    /\ pst_isMechanic
    /\ pst_currentStatus \in {"unpaid", "partial"}
    /\ ~pst_loading
    /\ PST_handleSendReminder

\* --------------------------------------------------------- CancelJobModal
Reason(id, label) == [id |-> id, label |-> label]

CANCEL_REASONS == <<
    Reason("schedule_conflict", "Schedule Conflict"),
    Reason("found_another_mechanic", "Found Another Mechanic"),
    Reason("no_longer_needed", "Service No Longer Needed"),
    Reason("cost_concerns", "Cost Concerns"),
    Reason("vehicle_fixed", "Vehicle Fixed by Other Means"),
    Reason("other", "Other Reason") >>

\* the onClose prop: the parent hides the modal
CJM_onClose ==
    /\ cjm_visible' = FALSE
    /\ cjm_onCloseCalls' = cjm_onCloseCalls + 1

\* the parent shows the modal (visible prop)
CJM_Open ==
    /\ UIReady("CJM")
    /\ ~cjm_visible
    /\ cjm_visible' = TRUE
    /\ cjm_onCloseCalls' = 0
    /\ event' = Ev("CJM.Open", "")
    /\ UNCHANGED <<mounted, pending, alerts, cjm_isCustomer, cjmState, notCJM>>

\* reason option: never disabled
CJM_SelectReason(id) ==
    /\ UIReady("CJM")
    /\ cjm_visible
    /\ cjm_selectedReason' = id
    /\ event' = Ev("CJM.SelectReason", "")
    /\ UNCHANGED <<mounted, pending, alerts, cjmProps, cjm_otherReason, cjm_loading,
                   cjm_onCloseCalls, notCJM>>

\* free-text input: rendered while selectedReason === 'other'
CJM_ChangeOtherReason(t) ==
    /\ UIReady("CJM")
    /\ cjm_visible
    /\ cjm_selectedReason = "other"
    /\ cjm_otherReason' = t
    /\ event' = Ev("CJM.ChangeOtherReason", "")
    /\ UNCHANGED <<mounted, pending, alerts, cjmProps, cjm_selectedReason, cjm_loading,
                   cjm_onCloseCalls, notCJM>>

\* the record with reasonText always taken from the reason's label
cancellationData_LabelOnly ==
    [reason |-> cjm_selectedReason,
     reasonText |-> FindById(CANCEL_REASONS, cjm_selectedReason).label,
     cancelledBy |-> IF cjm_isCustomer THEN "customer" ELSE "mechanic"]

cancellationData ==
    [reason |-> cjm_selectedReason,
     reasonText |-> IF cjm_selectedReason = "other"
                    THEN Str(cjm_otherReason)
                    ELSE FindById(CANCEL_REASONS, cjm_selectedReason).label,
     cancelledBy |-> IF cjm_isCustomer THEN "customer" ELSE "mechanic"]

CJM_handleCancel ==
    /\ mounted = "CJM"
    /\ event' = Ev("CJM.handleCancel", cjm_selectedReason)
    /\ IF cjm_selectedReason = "null"
       THEN /\ alerts' = Append(alerts, AlertBox("Error", "Please select a cancellation reason", ""))
            /\ UNCHANGED <<pending, cjmVars>>
       ELSE IF cjm_selectedReason = "other" /\ Blank(cjm_otherReason)
       THEN /\ alerts' = Append(alerts, AlertBox("Error",
                   "Please provide details for your cancellation reason", ""))
            /\ UNCHANGED <<pending, cjmVars>>
       ELSE /\ Len(pending) < MaxInFlight
            /\ cjm_loading' = TRUE
            /\ pending' = Append(pending, Promise("CJM.onCancel", cancellationData,
                                 [selectedReason |-> cjm_selectedReason,
                                  otherReason |-> cjm_otherReason]))
            /\ UNCHANGED <<alerts, cjmProps, cjm_selectedReason, cjm_otherReason,
                           cjm_onCloseCalls>>
    /\ UNCHANGED <<mounted, notCJM>>

\* the disabled prop testing the free text without trimming it
CJM_confirmDisabled_NoTrim ==
    \/ cjm_loading
    \/ cjm_selectedReason = "null"
    \/ (cjm_selectedReason = "other" /\ cjm_otherReason = <<>>)

\* the disabled prop without the loading flag
CJM_confirmDisabled_NoBusy ==
    \/ cjm_selectedReason = "null"
    \/ (cjm_selectedReason = "other" /\ Blank(cjm_otherReason))

\* disabled prop of the confirm button
CJM_confirmDisabled ==
    \/ cjm_loading
    \/ cjm_selectedReason = "null"
    \/ (cjm_selectedReason = "other" /\ Blank(cjm_otherReason))

\* "Confirm Cancellation"
CJM_PressConfirm ==
    /\ UIReady("CJM")
    /\ cjm_visible
    /\ ~CJM_confirmDisabled
    /\ CJM_handleCancel

\* the continuation with setLoading(false) at the end of the try block
CJM_CancelContinue_NoFinally ==
    /\ mounted = "CJM"
    /\ \E i \in 1..Len(pending) :
        /\ pending[i].fn = "CJM.onCancel"
        /\ pending[i].st # "pending"
        /\ pending' = RemoveAt(pending, i)
        /\ event' = Ev("CJM.onCancel." \o pending[i].st, pending[i])
        /\ IF pending[i].st = "rejected"
           THEN /\ alerts' = Append(alerts, AlertBox("Error",
                       "Failed to cancel job. Please try again.", ""))
                /\ UNCHANGED <<cjm_visible, cjm_selectedReason, cjm_otherReason,
                               cjm_onCloseCalls, cjm_loading>>
           ELSE /\ cjm_selectedReason' = "null"
                /\ cjm_otherReason' = <<>>
                /\ CJM_onClose
                /\ cjm_loading' = FALSE
                /\ UNCHANGED alerts
    /\ UNCHANGED <<mounted, cjm_isCustomer, notCJM>>

\* handleCancel resumes after await onCancel(cancellationData)
CJM_CancelContinue ==
    /\ mounted = "CJM"
    /\ \E i \in 1..Len(pending) :
        /\ pending[i].fn = "CJM.onCancel"
        /\ pending[i].st # "pending"
        /\ pending' = RemoveAt(pending, i)
        /\ event' = Ev("CJM.onCancel." \o pending[i].st, pending[i])
        /\ IF pending[i].st = "rejected"
           THEN /\ alerts' = Append(alerts, AlertBox("Error",
                       "Failed to cancel job. Please try again.", ""))
                /\ UNCHANGED <<cjm_visible, cjm_selectedReason, cjm_otherReason,
                               cjm_onCloseCalls>>
           ELSE /\ cjm_selectedReason' = "null"
                /\ cjm_otherReason' = <<>>
                /\ CJM_onClose
                /\ UNCHANGED alerts
    /\ cjm_loading' = FALSE
    /\ UNCHANGED <<mounted, cjm_isCustomer, notCJM>>

\* resetAndClose leaving the free text as it is
resetAndClose_KeepText ==
    /\ cjm_selectedReason' = "null"
    /\ cjm_otherReason' = cjm_otherReason
    /\ CJM_onClose
    /\ UNCHANGED <<mounted, pending, alerts, cjm_isCustomer, cjm_loading, notCJM>>

resetAndClose ==
    /\ cjm_selectedReason' = "null"
    /\ cjm_otherReason' = <<>>
    /\ CJM_onClose
    /\ UNCHANGED <<mounted, pending, alerts, cjm_isCustomer, cjm_loading, notCJM>>

\* header close button and the Modal's onRequestClose: never disabled
CJM_PressClose ==
    /\ UIReady("CJM")
    /\ cjm_visible
    /\ event' = Ev("CJM.PressClose", "")
    /\ resetAndClose

\* "Go Back": disabled={loading}
CJM_PressGoBack ==
    /\ UIReady("CJM")
    /\ cjm_visible
    /\ ~cjm_loading
    /\ event' = Ev("CJM.PressGoBack", "")
    /\ resetAndClose

\* ---------------------------------------------------------- MechanicNotes
Note(id, length) == [id |-> id, length |-> length]

\* caller-supplied notes: one short, two longer than 100 characters
ExistingNotesInputs == {
    <<>>,
    <<Note("n1", 40), Note("n2", 150), Note("n3", 120)>> }

\* renderNote: isExpanded
isExpanded(item) == mn_expandedNoteId = item.id

\* renderNote: number of characters of displayText (100 kept plus '...')
displayLength(item) ==
    IF item.length > 100 /\ ~isExpanded(item) THEN 100 + 3 ELSE item.length

\* toggleNoteExpansion that never collapses
toggleNoteExpansion_NoCollapse(noteId) ==
    /\ mounted = "MN"
    /\ mn_expandedNoteId' = noteId
    /\ event' = Ev("MN.toggleNoteExpansion", noteId)
    /\ UNCHANGED <<mounted, pending, alerts, mnProps, mn_newNote, mn_loading, notMN>>

\* setExpandedNoteId(expandedNoteId === noteId ? null : noteId)
toggleNoteExpansion(noteId) ==
    /\ mounted = "MN"
    /\ mn_expandedNoteId' = IF mn_expandedNoteId = noteId THEN "null" ELSE noteId
    /\ event' = Ev("MN.toggleNoteExpansion", noteId)
    /\ UNCHANGED <<mounted, pending, alerts, mnProps, mn_newNote, mn_loading, notMN>>

\* "Show more" / "Show less": rendered for notes longer than 100 characters
MN_PressExpand(noteId) ==
    /\ UIReady("MN")
    /\ \E i \in 1..Len(mn_existingNotes) :
        /\ mn_existingNotes[i].id = noteId
        /\ mn_existingNotes[i].length > 100
    /\ toggleNoteExpansion(noteId)

MN_ChangeNewNote(t) ==
    /\ UIReady("MN")
    /\ ~mn_readOnly
    /\ mn_newNote' = t
    /\ event' = Ev("MN.ChangeNewNote", "")
    /\ UNCHANGED <<mounted, pending, alerts, mnProps, mn_loading, notMN>>
    /\ UNCHANGED mn_expandedNoteId

\* handleAddNote clearing the input when the note is blank
handleAddNote_ClearOnBlank ==
    /\ mounted = "MN"
    /\ event' = Ev("MN.handleAddNote", Str(mn_newNote))
    /\ IF Blank(mn_newNote)
       THEN /\ alerts' = Append(alerts, AlertBox("Error", "Note cannot be empty", ""))
            /\ mn_newNote' = <<>>
            /\ UNCHANGED <<pending, mnProps, mn_loading>>
       ELSE /\ Len(pending) < MaxInFlight
            /\ mn_loading' = TRUE
            /\ pending' = Append(pending, Promise("MN.onAddNote",
                                 [text |-> Str(Trim(mn_newNote))], ""))
            /\ UNCHANGED <<alerts, mnProps, mn_newNote>>
    /\ UNCHANGED <<mounted, notMN>>
    /\ UNCHANGED mn_expandedNoteId

handleAddNote ==
    /\ mounted = "MN"
    /\ event' = Ev("MN.handleAddNote", Str(mn_newNote))
    /\ IF Blank(mn_newNote)
       THEN /\ alerts' = Append(alerts, AlertBox("Error", "Note cannot be empty", ""))
            /\ UNCHANGED <<pending, mnVars>>
       ELSE /\ Len(pending) < MaxInFlight
            /\ mn_loading' = TRUE
            /\ pending' = Append(pending, Promise("MN.onAddNote",
                                 [text |-> Str(Trim(mn_newNote))], ""))
            /\ UNCHANGED <<alerts, mnProps, mn_newNote>>
    /\ UNCHANGED <<mounted, notMN>>
    /\ UNCHANGED mn_expandedNoteId

\* "Add Note": disabled={!newNote.trim() || loading}
MN_PressAddNote ==
    /\ UIReady("MN")
    /\ ~mn_readOnly
    /\ ~(Blank(mn_newNote) \/ mn_loading)
    /\ handleAddNote

\* the continuation clearing the input whatever onAddNote returned
MN_AddNoteContinue_AlwaysClear ==
    /\ mounted = "MN"
    /\ \E i \in 1..Len(pending) :
        /\ pending[i].fn = "MN.onAddNote"
        /\ pending[i].st # "pending"
        /\ pending' = RemoveAt(pending, i)
        /\ event' = Ev("MN.onAddNote." \o pending[i].st, pending[i])
        /\ IF pending[i].st = "rejected"
           THEN /\ alerts' = Append(alerts, AlertBox("Error", "Failed to add note", ""))
                /\ UNCHANGED mn_newNote
           ELSE /\ mn_newNote' = <<>>
                /\ UNCHANGED alerts
    /\ mn_loading' = FALSE
    /\ UNCHANGED <<mounted, mnProps, notMN>>
    /\ UNCHANGED mn_expandedNoteId

\* handleAddNote resumes after await onAddNote(noteData)
MN_AddNoteContinue ==
    /\ mounted = "MN"
    /\ \E i \in 1..Len(pending) :
        /\ pending[i].fn = "MN.onAddNote"
        /\ pending[i].st # "pending"
        /\ pending' = RemoveAt(pending, i)
        /\ event' = Ev("MN.onAddNote." \o pending[i].st, pending[i])
        /\ IF pending[i].st = "rejected"
           THEN /\ alerts' = Append(alerts, AlertBox("Error", "Failed to add note", ""))
                /\ UNCHANGED mn_newNote
           ELSE /\ mn_newNote' = IF pending[i].val THEN <<>> ELSE mn_newNote
                /\ UNCHANGED alerts
    /\ mn_loading' = FALSE
    /\ UNCHANGED <<mounted, mnProps, notMN>>
    /\ UNCHANGED mn_expandedNoteId

\* shows the confirmation dialog only
handleDeleteNote(noteId) ==
    /\ mounted = "MN"
    /\ alerts' = Append(alerts, AlertBox("Delete Note",
           "Are you sure you want to delete this note? This action cannot be undone.", noteId))
    /\ event' = Ev("MN.handleDeleteNote", noteId)
    /\ UNCHANGED <<mounted, pending, mnVars, notMN>>
    /\ UNCHANGED mn_expandedNoteId

\* the trash icon rendered in read-only mode too
MN_PressDeleteNote_Ungated(noteId) ==
    /\ UIReady("MN")
    /\ noteId \in Ids(mn_existingNotes)
    /\ handleDeleteNote(noteId)

\* trash icon of a note: rendered unless readOnly, never disabled
MN_PressDeleteNote(noteId) ==
    /\ UIReady("MN")
    /\ ~mn_readOnly
    /\ noteId \in Ids(mn_existingNotes)
    /\ handleDeleteNote(noteId)

\* "Cancel" button of the confirmation dialog
MN_DeleteDialogCancel ==
    /\ mounted = "MN"
    /\ ~MicrotaskPending
    /\ alerts # <<>>
    /\ Head(alerts).title = "Delete Note"
    /\ alerts' = Tail(alerts)
    /\ event' = Ev("MN.DeleteDialogCancel", Head(alerts).arg)
    /\ UNCHANGED <<mounted, pending, mnVars, notMN>>
    /\ UNCHANGED mn_expandedNoteId

\* "Delete" button of the confirmation dialog: onPress up to the await
MN_DeleteDialogDelete ==
    /\ mounted = "MN"
    /\ ~MicrotaskPending
    /\ alerts # <<>>
    /\ Head(alerts).title = "Delete Note"
    /\ Len(pending) < MaxInFlight
    /\ alerts' = Tail(alerts)
    /\ mn_loading' = TRUE
    /\ pending' = Append(pending, Promise("MN.onDeleteNote", Head(alerts).arg, ""))
    /\ event' = Ev("MN.DeleteDialogDelete", Head(alerts).arg)
    /\ UNCHANGED <<mounted, mnProps, mn_newNote, notMN>>
    /\ UNCHANGED mn_expandedNoteId

\* the Delete onPress resumes after await onDeleteNote(noteId)
MN_DeleteNoteContinue ==
    /\ mounted = "MN"
    /\ \E i \in 1..Len(pending) :
        /\ pending[i].fn = "MN.onDeleteNote"
        /\ pending[i].st # "pending"
        /\ pending' = RemoveAt(pending, i)
        /\ event' = Ev("MN.onDeleteNote." \o pending[i].st, pending[i])
        /\ alerts' = IF pending[i].st = "rejected"
                     THEN Append(alerts, AlertBox("Error", "Failed to delete note", ""))
                     ELSE alerts
    /\ mn_loading' = FALSE
    /\ UNCHANGED <<mounted, mnProps, mn_newNote, notMN>>
    /\ UNCHANGED mn_expandedNoteId

\* ------------------------------------------------------------ PhotoUpload
PHOTO_CATEGORIES == <<
    [id |-> "before", label |-> "Before Repair"],
    [id |-> "during", label |-> "During Repair"],
    [id |-> "after", label |-> "After Repair"],
    [id |-> "parts", label |-> "Parts"],
    [id |-> "damage", label |-> "Damage"],
    [id |-> "other", label |-> "Other"] >>

\* categories the user presses
CategoryInputs == {"before", "damage"}

\* caller-supplied photos
ExistingPhotosInputs == { <<>>, <<[id |-> "p1"], [id |-> "p2"]>> }

\* captions the user types: none, whitespace only, a word
CaptionInputs == { <<>>, <<" ">>, <<"a">> }

PermissionFn(source) ==
    IF source = "camera" THEN "PU.requestCameraPermissionsAsync"
    ELSE "PU.requestMediaLibraryPermissionsAsync"

LaunchFn(source) ==
    IF source = "camera" THEN "PU.launchCameraAsync" ELSE "PU.launchImageLibraryAsync"

\* the system permission prompt, the camera or the photo library is in front
\* of the app: no touch reaches the component until it returns
PU_PickerOpen ==
    \E i \in 1..Len(pending) :
        pending[i].fn \in {PermissionFn("camera"), PermissionFn("library"),
                           LaunchFn("camera"), LaunchFn("library")}

\* a touch reaches the upload section or the photo list: the loading overlay
\* covers the component while uploading
PU_Touchable == UIReady("PU") /\ ~pu_uploading /\ ~PU_PickerOpen

PU_SelectCategory(c) ==
    /\ PU_Touchable
    /\ ~pu_readOnly
    /\ pu_selectedCategory' = c
    /\ event' = Ev("PU.SelectCategory", "")
    /\ UNCHANGED <<mounted, pending, alerts, unhandledRejection, puProps, pu_photos,
                   pu_uploading, pu_caption, notPU>>

PU_ChangeCaption(t) ==
    /\ PU_Touchable
    /\ ~pu_readOnly
    /\ pu_caption' = t
    /\ event' = Ev("PU.ChangeCaption", "")
    /\ UNCHANGED <<mounted, pending, alerts, unhandledRejection, puProps, pu_photos,
                   pu_uploading, pu_selectedCategory, notPU>>

\* takePhoto (source = "camera") and pickImage (source = "library") up to
\* the await of the permission request
takePhoto(source) ==
    /\ mounted = "PU"
    /\ Len(pending) < MaxInFlight
    /\ pending' = Append(pending, Promise(PermissionFn(source), source,
                         [selectedCategory |-> pu_selectedCategory, caption |-> pu_caption]))
    /\ event' = Ev("PU.takePhoto", source)
    /\ UNCHANGED <<mounted, alerts, unhandledRejection, puVars, notPU>>

\* "Take Photo" and "Choose from Gallery": disabled={uploading}
PU_PressUploadButton(source) ==
    /\ PU_Touchable
    /\ ~pu_readOnly
    /\ takePhoto(source)

\* requestCameraPermission / requestMediaLibraryPermission resume, then
\* takePhoto / pickImage up to the await of the picker; the permission
\* request is awaited outside the try block
PU_PermissionContinue ==
    /\ mounted = "PU"
    /\ \E i \in 1..Len(pending) :
        /\ pending[i].fn \in {PermissionFn("camera"), PermissionFn("library")}
        /\ pending[i].st # "pending"
        /\ event' = Ev(pending[i].fn \o "." \o pending[i].st, pending[i])
        /\ IF pending[i].st = "rejected"
           THEN /\ unhandledRejection' = TRUE
                /\ pending' = RemoveAt(pending, i)
                /\ UNCHANGED alerts
           ELSE IF pending[i].val
           THEN /\ pending' = Append(RemoveAt(pending, i),
                                Promise(LaunchFn(pending[i].arg), pending[i].arg, pending[i].ctx))
                /\ UNCHANGED <<alerts, unhandledRejection>>
           ELSE /\ alerts' = Append(alerts, AlertBox("Permission Denied",
                       IF pending[i].arg = "camera"
                       THEN "Please allow camera access to take photos"
                       ELSE "Please allow access to your photo library", ""))
                /\ pending' = RemoveAt(pending, i)
                /\ UNCHANGED unhandledRejection
    /\ UNCHANGED <<mounted, puVars, notPU>>

photoData(uri, ctx) ==
    [uri |-> uri,
     category |-> ctx.selectedCategory,
     caption |-> IF Blank(ctx.caption) THEN "undefined" ELSE Str(Trim(ctx.caption))]

\* handleUpload up to the await of the simulated upload delay; rest is the
\* promises left after the caller's own promise was removed
handleUpload(uri, ctx, rest) ==
    IF ctx.selectedCategory = "null"
    THEN /\ alerts' = Append(alerts, AlertBox("Error", "Please select a category for the photo", ""))
         /\ pending' = rest
         /\ UNCHANGED pu_uploading
    ELSE /\ pu_uploading' = TRUE
         /\ pending' = Append(rest, Promise("PU.uploadDelay", photoData(uri, ctx), ""))
         /\ UNCHANGED alerts

\* takePhoto / pickImage resume after the picker returned
PU_LaunchContinue ==
    /\ mounted = "PU"
    /\ \E i \in 1..Len(pending) :
        /\ pending[i].fn \in {LaunchFn("camera"), LaunchFn("library")}
        /\ pending[i].st # "pending"
        /\ event' = Ev(pending[i].fn \o "." \o pending[i].st, pending[i])
        /\ IF pending[i].st = "rejected"
           THEN /\ alerts' = Append(alerts, AlertBox("Error",
                       IF pending[i].arg = "camera" THEN "Failed to take photo"
                       ELSE "Failed to pick image", ""))
                /\ pending' = RemoveAt(pending, i)
                /\ UNCHANGED pu_uploading
           ELSE IF pending[i].val
           THEN handleUpload("asset0", pending[i].ctx, RemoveAt(pending, i))
           ELSE /\ pending' = RemoveAt(pending, i)
                /\ UNCHANGED <<alerts, pu_uploading>>
    /\ UNCHANGED <<mounted, unhandledRejection, puProps, pu_photos,
                   pu_selectedCategory, pu_caption, notPU>>

\* handleUpload resumes after the delay and calls onUploadPhoto(photoData)
PU_DelayContinue ==
    /\ mounted = "PU"
    /\ \E i \in 1..Len(pending) :
        /\ pending[i].fn = "PU.uploadDelay"
        /\ pending[i].st # "pending"
        /\ event' = Ev("PU.uploadDelay.resolved", pending[i])
        /\ pending' = Append(RemoveAt(pending, i),
                             Promise("PU.onUploadPhoto", pending[i].arg, ""))
    /\ UNCHANGED <<mounted, alerts, unhandledRejection, puVars, notPU>>

\* handleUpload resumes after await onUploadPhoto(photoData)
PU_UploadContinue ==
    /\ mounted = "PU"
    /\ \E i \in 1..Len(pending) :
        /\ pending[i].fn = "PU.onUploadPhoto"
        /\ pending[i].st # "pending"
        /\ pending' = RemoveAt(pending, i)
        /\ event' = Ev("PU.onUploadPhoto." \o pending[i].st, pending[i])
        /\ IF pending[i].st = "rejected"
           THEN /\ alerts' = Append(alerts, AlertBox("Error", "Failed to upload photo", ""))
                /\ UNCHANGED pu_caption
           ELSE /\ pu_caption' = IF pending[i].val THEN <<>> ELSE pu_caption
                /\ UNCHANGED alerts
    /\ pu_uploading' = FALSE
    /\ UNCHANGED <<mounted, unhandledRejection, puProps, pu_photos,
                   pu_selectedCategory, notPU>>

\* shows the confirmation dialog only
handleDeletePhoto(photoId) ==
    /\ mounted = "PU"
    /\ alerts' = Append(alerts, AlertBox("Delete Photo",
           "Are you sure you want to delete this photo? This action cannot be undone.", photoId))
    /\ event' = Ev("PU.handleDeletePhoto", photoId)
    /\ UNCHANGED <<mounted, pending, unhandledRejection, puVars, notPU>>

\* trash icon of a photo: rendered unless readOnly, never disabled
PU_PressDeletePhoto(photoId) ==
    /\ PU_Touchable
    /\ ~pu_readOnly
    /\ photoId \in Ids(pu_photos)
    /\ handleDeletePhoto(photoId)

\* "Cancel" button of the confirmation dialog
PU_DeleteDialogCancel ==
    /\ mounted = "PU"
    /\ ~MicrotaskPending
    /\ alerts # <<>>
    /\ Head(alerts).title = "Delete Photo"
    /\ alerts' = Tail(alerts)
    /\ event' = Ev("PU.DeleteDialogCancel", Head(alerts).arg)
    /\ UNCHANGED <<mounted, pending, unhandledRejection, puVars, notPU>>

\* "Delete" button of the confirmation dialog: onPress up to the await
PU_DeleteDialogDelete ==
    /\ mounted = "PU"
    /\ ~MicrotaskPending
    /\ alerts # <<>>
    /\ Head(alerts).title = "Delete Photo"
    /\ Len(pending) < MaxInFlight
    /\ alerts' = Tail(alerts)
    /\ pu_uploading' = TRUE
    /\ pending' = Append(pending, Promise("PU.onDeletePhoto", Head(alerts).arg, ""))
    /\ event' = Ev("PU.DeleteDialogDelete", Head(alerts).arg)
    /\ UNCHANGED <<mounted, unhandledRejection, puProps, pu_photos,
                   pu_selectedCategory, pu_caption, notPU>>

\* the Delete onPress resumes after await onDeletePhoto(photoId)
PU_DeleteContinue ==
    /\ mounted = "PU"
    /\ \E i \in 1..Len(pending) :
        /\ pending[i].fn = "PU.onDeletePhoto"
        /\ pending[i].st # "pending"
        /\ pending' = RemoveAt(pending, i)
        /\ event' = Ev("PU.onDeletePhoto." \o pending[i].st, pending[i])
        /\ alerts' = IF pending[i].st = "rejected"
                     THEN Append(alerts, AlertBox("Error", "Failed to delete photo", ""))
                     ELSE alerts
    /\ pu_uploading' = FALSE
    /\ UNCHANGED <<mounted, unhandledRejection, puProps, pu_photos,
                   pu_selectedCategory, pu_caption, notPU>>

\* ------------------------------------------------------------------- Init
\* -------------------------------------------------------------- QuoteForm
\* decimal digits of the number inputs
DigitChars == <<"0", "1", "2", "3", "4", "5", "6", "7", "8", "9">>

DigitValue(c) == (CHOOSE i \in 1..Len(DigitChars) : DigitChars[i] = c) - 1

IsDigit(c) == \E i \in 1..Len(DigitChars) : DigitChars[i] = c

\* parseFloat(value) || 0 on a text of digits: NaN for a text that does not
\* start with a digit, hence 0
RECURSIVE ParseDigits(_, _)
ParseDigits(s, acc) ==
    IF s = <<>> \/ ~IsDigit(Head(s)) THEN acc
    ELSE ParseDigits(Tail(s), acc * 10 + DigitValue(Head(s)))

parseFloatOr0(s) == ParseDigits(s, 0)

\* decimal digits of a natural number
RECURSIVE IntToChars(_)
IntToChars(n) ==
    IF n < 10 THEN <<DigitChars[n + 1]>>
    ELSE IntToChars(n \div 10) \o <<DigitChars[(n % 10) + 1]>>

\* Number.prototype.toFixed(2) of a whole number
toFixed2(n) == IntToChars(n) \o <<".", "0", "0">>

\* useState({laborCost: '', partsCost: '', estimatedHours: '', notes: '',
\* totalCost: ''})
QF_emptyForm ==
    [laborCost |-> <<>>, partsCost |-> <<>>, estimatedHours |-> <<>>,
     notes |-> <<>>, totalCost |-> <<>>]

\* values the user enters, per field
QF_FieldInputs ==
    [laborCost |-> {<<>>, <<"0">>, <<"5">>},
     partsCost |-> {<<>>, <<"2">>},
     estimatedHours |-> {<<>>, <<"1">>},
     notes |-> {<<>>, <<"a">>}]

\* onChange of an input: the field is stored, and a change of labor or parts
\* cost recomputes totalCost from the new value and the other stored cost
handleChange(name, value) ==
    /\ UIReady("QF")
    /\ LET stored == [qf_formData EXCEPT ![name] = value]
           laborCost == IF name = "laborCost" THEN parseFloatOr0(value)
                        ELSE parseFloatOr0(qf_formData.laborCost)
           partsCost == IF name = "partsCost" THEN parseFloatOr0(value)
                        ELSE parseFloatOr0(qf_formData.partsCost)
       IN  qf_formData' =
               IF name \in {"laborCost", "partsCost"}
               THEN [stored EXCEPT !.totalCost = toFixed2(laborCost + partsCost)]
               ELSE stored
    /\ event' = Ev("QF.handleChange", name)
    /\ UNCHANGED <<mounted, pending, alerts, qf_error, qf_success, qf_loading, notQF>>

\* setError(''); setSuccess(''); then the validation, then the service call
handleSubmit ==
    /\ mounted = "QF"
    /\ event' = Ev("QF.handleSubmit", "")
    /\ qf_success' = ""
    /\ IF \/ qf_formData.laborCost = <<>>
          \/ qf_formData.estimatedHours = <<>>
          \/ qf_formData.totalCost = <<>>
       THEN /\ qf_error' = "Labor cost, estimated hours, and total cost are required"
            /\ UNCHANGED <<pending, qf_loading>>
       ELSE /\ Len(pending) < MaxInFlight
            /\ qf_error' = ""
            /\ qf_loading' = TRUE
            /\ pending' = Append(pending,
                   Promise("QF.addQuoteToServiceRequest", qf_formData, ""))
    /\ UNCHANGED <<mounted, alerts, qf_formData, notQF>>

\* "Submit Quote": disabled={loading}
QF_PressSubmit ==
    /\ UIReady("QF")
    /\ ~qf_loading
    /\ handleSubmit

\* handleSubmit resumes after await addQuoteToServiceRequest(...)
QF_SubmitContinue ==
    /\ mounted = "QF"
    /\ \E i \in 1..Len(pending) :
        /\ pending[i].fn = "QF.addQuoteToServiceRequest"
        /\ pending[i].st # "pending"
        /\ pending' = RemoveAt(pending, i)
        /\ event' = Ev("QF.addQuoteToServiceRequest." \o pending[i].st, pending[i])
        /\ IF pending[i].st = "rejected"
           THEN /\ qf_error' = "An error occurred while submitting the quote"
                /\ UNCHANGED qf_success
           ELSE IF pending[i].val
           THEN /\ qf_success' = "Quote submitted successfully!"
                /\ UNCHANGED qf_error
           ELSE /\ qf_error' = "result.error"
                /\ UNCHANGED qf_success
    /\ qf_loading' = FALSE
    /\ UNCHANGED <<mounted, alerts, qf_formData, notQF>>

\* ---------------------------------------------------- LicensePlateCapture
\* result.imageUri and result.licensePlate of a non-null result
ResultImageUri(method) == "file://" \o method \o ".jpg"

ResultLicensePlate == "ABC123"

\* the onClose prop: the parent hides the modal
LPC_onClose == lpc_visible' = FALSE

\* the parent shows the modal (visible prop)
LPC_Open ==
    /\ UIReady("LPC")
    /\ ~lpc_visible
    /\ lpc_visible' = TRUE
    /\ event' = Ev("LPC.Open", "")
    /\ UNCHANGED <<mounted, pending, alerts, lpcState, notLPC>>

\* handleCapture up to await processLicensePlateCapture(method)
handleCapture(method) ==
    /\ mounted = "LPC"
    /\ Len(pending) < MaxInFlight
    /\ lpc_loading' = TRUE
    /\ lpc_step' = "processing"
    /\ pending' = Append(pending, Promise("LPC.processLicensePlateCapture", method, ""))
    /\ event' = Ev("LPC.handleCapture", method)
    /\ UNCHANGED <<mounted, alerts, lpc_visible, lpc_capturedImage, lpc_extractedPlate,
                   lpc_vehicleInfo, notLPC>>

\* "Take Photo" / "Choose from Gallery": rendered in step 'capture',
\* disabled={loading}
LPC_PressCapture(method) ==
    /\ UIReady("LPC")
    /\ lpc_visible
    /\ lpc_step = "capture"
    /\ ~lpc_loading
    /\ handleCapture(method)

\* the continuation without the reset of step in the catch block
LPC_CaptureContinue_NoStepBack ==
    /\ mounted = "LPC"
    /\ \E i \in 1..Len(pending) :
        /\ pending[i].fn = "LPC.processLicensePlateCapture"
        /\ pending[i].st # "pending"
        /\ pending' = RemoveAt(pending, i)
        /\ event' = Ev("LPC.processLicensePlateCapture." \o pending[i].st, pending[i])
        /\ IF pending[i].st = "rejected"
           THEN /\ alerts' = Append(alerts, AlertBox("Error",
                       "Failed to process license plate. Please try again.", ""))
                /\ UNCHANGED <<lpc_step, lpc_capturedImage, lpc_extractedPlate,
                               lpc_vehicleInfo>>
           ELSE IF pending[i].val # "null"
           THEN /\ lpc_capturedImage' = ResultImageUri(pending[i].arg)
                /\ lpc_extractedPlate' = ResultLicensePlate
                /\ lpc_vehicleInfo' = pending[i].val
                /\ lpc_step' = "results"
                /\ alerts' = Append(alerts,
                       IF pending[i].val = "full"
                       THEN AlertBox("Success", "Vehicle information found!", "")
                       ELSE AlertBox("Partial Success",
                                "License plate read, but vehicle details not found.", ""))
           ELSE /\ lpc_step' = "capture"
                /\ alerts' = Append(alerts, AlertBox("Cancelled",
                       "License plate capture was cancelled.", ""))
                /\ UNCHANGED <<lpc_capturedImage, lpc_extractedPlate, lpc_vehicleInfo>>
    /\ lpc_loading' = FALSE
    /\ UNCHANGED <<mounted, lpc_visible, notLPC>>

\* handleCapture resumes after await processLicensePlateCapture(method)
LPC_CaptureContinue ==
    /\ mounted = "LPC"
    /\ \E i \in 1..Len(pending) :
        /\ pending[i].fn = "LPC.processLicensePlateCapture"
        /\ pending[i].st # "pending"
        /\ pending' = RemoveAt(pending, i)
        /\ event' = Ev("LPC.processLicensePlateCapture." \o pending[i].st, pending[i])
        /\ IF pending[i].st = "rejected"
           THEN /\ lpc_step' = "capture"
                /\ alerts' = Append(alerts, AlertBox("Error",
                       "Failed to process license plate. Please try again.", ""))
                /\ UNCHANGED <<lpc_capturedImage, lpc_extractedPlate, lpc_vehicleInfo>>
           ELSE IF pending[i].val # "null"
           THEN /\ lpc_capturedImage' = ResultImageUri(pending[i].arg)
                /\ lpc_extractedPlate' = ResultLicensePlate
                /\ lpc_vehicleInfo' = pending[i].val
                /\ lpc_step' = "results"
                /\ alerts' = Append(alerts,
                       IF pending[i].val = "full"
                       THEN AlertBox("Success", "Vehicle information found!", "")
                       ELSE AlertBox("Partial Success",
                                "License plate read, but vehicle details not found.", ""))
           ELSE /\ lpc_step' = "capture"
                /\ alerts' = Append(alerts, AlertBox("Cancelled",
                       "License plate capture was cancelled.", ""))
                /\ UNCHANGED <<lpc_capturedImage, lpc_extractedPlate, lpc_vehicleInfo>>
    /\ lpc_loading' = FALSE
    /\ UNCHANGED <<mounted, lpc_visible, notLPC>>

handleRetry ==
    /\ mounted = "LPC"
    /\ lpc_capturedImage' = "null"
    /\ lpc_extractedPlate' = ""
    /\ lpc_vehicleInfo' = "null"
    /\ lpc_step' = "capture"
    /\ UNCHANGED <<mounted, pending, alerts, lpc_visible, lpc_loading, notLPC>>

\* "Try Again": rendered in step 'results'
LPC_PressRetry ==
    /\ UIReady("LPC")
    /\ lpc_visible
    /\ lpc_step = "results"
    /\ event' = Ev("LPC.handleRetry", "")
    /\ handleRetry

handleClose ==
    /\ mounted = "LPC"
    /\ lpc_capturedImage' = "null"
    /\ lpc_extractedPlate' = ""
    /\ lpc_vehicleInfo' = "null"
    /\ lpc_step' = "capture"
    /\ LPC_onClose
    /\ UNCHANGED <<mounted, pending, alerts, lpc_loading, notLPC>>

\* header close button and the Modal's onRequestClose: never disabled
LPC_PressClose ==
    /\ UIReady("LPC")
    /\ lpc_visible
    /\ event' = Ev("LPC.handleClose", "")
    /\ handleClose

\* "Use This Vehicle" / "Use License Plate": rendered in step 'results';
\* onVehicleFound(vehicleInfo) when vehicleInfo is set, then handleClose
LPC_PressUseVehicle ==
    /\ UIReady("LPC")
    /\ lpc_visible
    /\ lpc_step = "results"
    /\ event' = Ev("LPC.handleUseVehicle", lpc_vehicleInfo)
    /\ handleClose

\* --------------------------------------------------------- LiveChatWidget
SessionIds == {"s1", "s2"}

\* a list of sessions: the status of each session id, "none" when absent
NoSessions == [id \in SessionIds |-> "none"]

ServerInputs == {NoSessions, [NoSessions EXCEPT !["s1"] = "active"]}

ChatInputs == {<<>>, <<" ">>, <<"a">>}

Known(list) == {id \in SessionIds : list[id] # "none"}

Active(list) == {id \in SessionIds : list[id] = "active"}

POLL_INTERVAL_MS == 3000

Interval(session) == [session |-> session, ms |-> POLL_INTERVAL_MS]

\* the effect on [currentSession] with the interval left running
SessionEffectTimers_NoCleanup(session) ==
    lcw_timers \o (IF session = "null" THEN <<>> ELSE <<Interval(session)>>)

\* the effect on [currentSession]: the cleanup of the previous run clears its
\* interval, a session that is set gets a new one
SessionEffectTimers(session) ==
    IF session = "null" THEN <<>> ELSE <<Interval(session)>>

\* the effect on [currentSession]: loadMessages() for a session that is set
SessionEffectCalls(session) ==
    IF session = "null" THEN <<>>
    ELSE <<Promise("LCW.getChatMessages", session, "")>>

\* setIsTyping(false) after await loadMessages() in the delayed reload
TypingAfterLoad(from) == IF from = "timeout" THEN FALSE ELSE lcw_isTyping

\* the ways the awaited call at position i of pending can settle
SettledAs(i) ==
    UNION {{[pending[i] EXCEPT !.st = st, !.val = val] :
                val \in (IF st = "resolved" THEN ResolveValues(pending[i].fn) ELSE {FALSE})} :
           st \in Outcomes(pending[i].fn)}

\* the call of fn at position i of pending settles and the handler of the
\* mounted widget that awaits it resumes
Resumes(i, fn) ==
    /\ mounted = "LCW"
    /\ lcw_phase = "alive"
    /\ pending[i].fn = fn
    /\ pending[i].st = "pending"

\* a handler or the interval may start a call: the calls outstanding and the
\* reloads scheduled leave room for it and for the call its resumption makes
ChatIdle == Len(pending) + Len(lcw_timeouts) + 1 < MaxInFlight

\* the widget is mounted: the effect on [userId] calls initializeWidget
LCW_Mount ==
    /\ mounted = "LCW"
    /\ lcw_phase = "new"
    /\ lcw_phase' = "alive"
    /\ pending' = Append(pending, Promise("LCW.initializeChatService", "", ""))
    /\ event' = Ev("LCW.Mount", "")
    /\ UNCHANGED <<mounted, alerts, lcwState, lcw_server, lcw_timers, lcw_timeouts,
                   lcw_closed, notLCW>>

\* initializeWidget resumes after await initializeChatService(), then
\* loadSessions up to its await
LCW_InitContinue ==
    /\ \E i \in 1..Len(pending) : \E p \in SettledAs(i) :
        /\ Resumes(i, "LCW.initializeChatService")
        /\ event' = Ev("LCW.initializeChatService." \o p.st, pending[i].arg)
        /\ pending' = RemoveAt(pending, i) \o
               (IF p.st = "resolved"
                THEN <<Promise("LCW.getChatSessions", "", [from |-> "init", sessionId |-> "null"])>>
                ELSE <<>>)
    /\ UNCHANGED <<mounted, alerts, lcwVars, notLCW>>

\* loadSessions resumes after await getChatSessions(userId), then its caller:
\* initializeWidget up to updateUnreadCount's await, startNewChat to its end,
\* closeCurrentSession to its end
LCW_LoadSessionsContinue ==
    /\ \E i \in 1..Len(pending) : \E p \in SettledAs(i) :
        /\ Resumes(i, "LCW.getChatSessions")
        /\ event' = Ev("LCW.getChatSessions." \o p.st, pending[i].arg)
        /\ LET from == pending[i].ctx.from
               loaded == p.st = "resolved"
               found == loaded /\ Active(lcw_server) # {}
           IN  \E active \in (IF found THEN Active(lcw_server) ELSE {lcw_currentSession}) :
               LET session == IF from = "start" THEN pending[i].ctx.sessionId ELSE active
                   effectRuns == found \/ from = "start"
               IN  /\ lcw_sessions' = IF loaded THEN lcw_server ELSE lcw_sessions
                   /\ lcw_currentSession' = session
                   /\ lcw_timers' = IF effectRuns THEN SessionEffectTimers(session)
                                    ELSE lcw_timers
                   /\ pending' = RemoveAt(pending, i) \o
                          (IF effectRuns THEN SessionEffectCalls(session) ELSE <<>>) \o
                          (IF from = "init"
                           THEN <<Promise("LCW.getUnreadMessageCount", "", "init")>>
                           ELSE <<>>)
                   /\ lcw_isExpanded' = IF from = "start" THEN TRUE ELSE lcw_isExpanded
                   /\ lcw_showSessionList' = IF from = "start" THEN FALSE
                                             ELSE lcw_showSessionList
                   /\ lcw_isLoading' = IF from = "start" THEN FALSE ELSE lcw_isLoading
    /\ UNCHANGED <<mounted, alerts, lcw_phase, lcw_isVisible, lcw_messages, lcw_inputText,
                   lcw_isTyping, lcw_unreadCount, lcw_server, lcw_timeouts, lcw_closed,
                   notLCW>>

\* updateUnreadCount resumes after await getUnreadMessageCount(userId), then
\* its caller: initializeWidget shows the widget, the delayed reload clears
\* isTyping
LCW_UnreadCountContinue ==
    /\ \E i \in 1..Len(pending) : \E p \in SettledAs(i) :
        /\ Resumes(i, "LCW.getUnreadMessageCount")
        /\ event' = Ev("LCW.getUnreadMessageCount." \o p.st, pending[i].arg)
        /\ pending' = RemoveAt(pending, i)
        /\ lcw_unreadCount' = IF p.st = "resolved" THEN p.val
                              ELSE lcw_unreadCount
        /\ lcw_isVisible' = IF pending[i].ctx = "init" THEN TRUE ELSE lcw_isVisible
        /\ lcw_isTyping' = TypingAfterLoad(pending[i].ctx)
    /\ UNCHANGED <<mounted, alerts, lcw_phase, lcw_isExpanded, lcw_currentSession,
                   lcw_messages, lcw_inputText, lcw_isLoading, lcw_sessions,
                   lcw_showSessionList, lcw_server, lcw_timers, lcw_timeouts, lcw_closed,
                   notLCW>>

\* loadMessages, called by the effect, the interval or the delayed reload,
\* with the session of the render it was created in: up to its await
loadMessages(session, from) ==
    /\ mounted = "LCW"
    /\ session # "null"
    /\ pending' = Append(pending, Promise("LCW.getChatMessages", session, from))

\* loadMessages resumes after await getChatMessages(currentSession.id), up to
\* await markMessagesAsRead when a message is unread
LCW_LoadMessagesContinue ==
    /\ \E i \in 1..Len(pending) : \E p \in SettledAs(i) :
        /\ Resumes(i, "LCW.getChatMessages")
        /\ event' = Ev("LCW.getChatMessages." \o p.st, pending[i].arg)
        /\ LET unread == p.st = "resolved" /\ p.val = "unread"
           IN  /\ lcw_messages' =
                      IF p.st = "rejected" THEN lcw_messages
                      ELSE IF p.val = "none" THEN {} ELSE {pending[i].arg}
               /\ pending' = RemoveAt(pending, i) \o
                      (IF unread
                       THEN <<Promise("LCW.markMessagesAsRead", pending[i].arg, pending[i].ctx)>>
                       ELSE <<>>)
               /\ lcw_isTyping' = IF unread THEN lcw_isTyping
                                  ELSE TypingAfterLoad(pending[i].ctx)
    /\ UNCHANGED <<mounted, alerts, lcw_phase, lcw_isVisible, lcw_isExpanded,
                   lcw_currentSession, lcw_inputText, lcw_isLoading, lcw_unreadCount,
                   lcw_sessions, lcw_showSessionList, lcw_server, lcw_timers,
                   lcw_timeouts, lcw_closed, notLCW>>

\* loadMessages resumes after await markMessagesAsRead(...), up to
\* updateUnreadCount's await
LCW_MarkReadContinue ==
    /\ \E i \in 1..Len(pending) : \E p \in SettledAs(i) :
        /\ Resumes(i, "LCW.markMessagesAsRead")
        /\ event' = Ev("LCW.markMessagesAsRead." \o p.st, pending[i].arg)
        /\ pending' = RemoveAt(pending, i) \o
               (IF p.st = "resolved"
                THEN <<Promise("LCW.getUnreadMessageCount", "", pending[i].ctx)>>
                ELSE <<>>)
        /\ lcw_isTyping' = IF p.st = "resolved" THEN lcw_isTyping
                           ELSE TypingAfterLoad(pending[i].ctx)
    /\ UNCHANGED <<mounted, alerts, lcw_phase, lcw_isVisible, lcw_isExpanded,
                   lcw_currentSession, lcw_messages, lcw_inputText, lcw_isLoading,
                   lcw_unreadCount, lcw_sessions, lcw_showSessionList, lcw_server,
                   lcw_timers, lcw_timeouts, lcw_closed, notLCW>>

\* the interval fires: loadMessages of the render that set it
LCW_PollTick ==
    /\ mounted = "LCW"
    /\ lcw_phase = "alive"
    /\ ChatIdle
    /\ \E i \in 1..Len(lcw_timers) :
        /\ loadMessages(lcw_timers[i].session, "")
        /\ event' = Ev("LCW.PollTick", lcw_timers[i].session)
    /\ UNCHANGED <<mounted, alerts, lcwVars, notLCW>>

\* the delayed reload of sendUserMessage fires: loadMessages of the render
\* sendUserMessage was called in
LCW_TimeoutFire ==
    /\ mounted = "LCW"
    /\ lcw_phase = "alive"
    /\ lcw_timeouts # <<>>
    /\ loadMessages(Head(lcw_timeouts), "timeout")
    /\ lcw_timeouts' = Tail(lcw_timeouts)
    /\ event' = Ev("LCW.TimeoutFire", Head(lcw_timeouts))
    /\ UNCHANGED <<mounted, alerts, lcw_phase, lcwState, lcw_server, lcw_timers,
                   lcw_closed, notLCW>>

\* session ids the chat service has not handed out
UnusedIds ==
    {id \in SessionIds :
        /\ lcw_server[id] = "none"
        /\ \A i \in 1..Len(pending) :
               ~(pending[i].fn = "LCW.createChatSession" /\ pending[i].arg = id)}

\* startNewChat up to await createChatSession(...)
startNewChat ==
    /\ mounted = "LCW"
    /\ ChatIdle
    /\ UnusedIds # {}
    /\ lcw_isLoading' = TRUE
    /\ pending' = Append(pending,
           Promise("LCW.createChatSession", CHOOSE id \in UnusedIds : TRUE, ""))
    /\ event' = Ev("LCW.startNewChat", "")
    /\ UNCHANGED <<mounted, alerts, lcw_phase, lcw_isVisible, lcw_isExpanded,
                   lcw_currentSession, lcw_messages, lcw_inputText, lcw_isTyping,
                   lcw_unreadCount, lcw_sessions, lcw_showSessionList, lcw_server,
                   lcw_timers, lcw_timeouts, lcw_closed, notLCW>>

\* startNewChat resumes after await createChatSession(...), then loadSessions
\* up to its await
LCW_CreateSessionContinue ==
    /\ \E i \in 1..Len(pending) : \E p \in SettledAs(i) :
        /\ Resumes(i, "LCW.createChatSession")
        /\ event' = Ev("LCW.createChatSession." \o p.st, pending[i].arg)
        /\ IF p.st = "rejected"
           THEN /\ alerts' = Append(alerts, AlertBox("Error", "Failed to start chat session", ""))
                /\ lcw_isLoading' = FALSE
                /\ pending' = RemoveAt(pending, i)
                /\ UNCHANGED lcw_server
           ELSE /\ lcw_server' = [lcw_server EXCEPT ![pending[i].arg] = "active"]
                /\ pending' = RemoveAt(pending, i) \o
                       <<Promise("LCW.getChatSessions", "",
                                 [from |-> "start", sessionId |-> pending[i].arg])>>
                /\ UNCHANGED <<alerts, lcw_isLoading>>
    /\ UNCHANGED <<mounted, lcw_phase, lcw_isVisible, lcw_isExpanded, lcw_currentSession,
                   lcw_messages, lcw_inputText, lcw_isTyping, lcw_unreadCount,
                   lcw_sessions, lcw_showSessionList, lcw_timers, lcw_timeouts,
                   lcw_closed, notLCW>>

\* a touch reaches the floating button: the widget is shown and neither
\* modal covers the screen
LCW_ButtonTouchable ==
    /\ UIReady("LCW")
    /\ lcw_phase = "alive"
    /\ lcw_isVisible
    /\ ~lcw_isExpanded
    /\ ~lcw_showSessionList

\* toggleWidget with no current session and no session listed
LCW_PressButtonStart ==
    /\ LCW_ButtonTouchable
    /\ ~lcw_isLoading
    /\ lcw_currentSession = "null"
    /\ Known(lcw_sessions) = {}
    /\ startNewChat

\* toggleWidget in its other branches; floating button: disabled={isLoading}
LCW_PressButton ==
    /\ LCW_ButtonTouchable
    /\ ~lcw_isLoading
    /\ (lcw_currentSession # "null" \/ Known(lcw_sessions) # {})
    /\ IF lcw_isExpanded
       THEN lcw_isExpanded' = FALSE /\ UNCHANGED lcw_showSessionList
       ELSE IF lcw_currentSession # "null"
       THEN lcw_isExpanded' = TRUE /\ UNCHANGED lcw_showSessionList
       ELSE lcw_showSessionList' = TRUE /\ UNCHANGED lcw_isExpanded
    /\ event' = Ev("LCW.toggleWidget", "")
    /\ UNCHANGED <<mounted, pending, alerts, lcw_phase, lcw_isVisible, lcw_currentSession,
                   lcw_messages, lcw_inputText, lcw_isLoading, lcw_isTyping,
                   lcw_unreadCount, lcw_sessions, lcw_server, lcw_timers, lcw_timeouts,
                   lcw_closed, notLCW>>

\* a touch reaches the session list modal
LCW_ListTouchable ==
    /\ UIReady("LCW")
    /\ lcw_phase = "alive"
    /\ lcw_isVisible
    /\ lcw_showSessionList

\* "Start New Chat" in the session list: never disabled
LCW_PressStartNewChat ==
    /\ LCW_ListTouchable
    /\ startNewChat

\* close icon and onRequestClose of the session list
LCW_CloseSessionList ==
    /\ LCW_ListTouchable
    /\ lcw_showSessionList' = FALSE
    /\ event' = Ev("LCW.CloseSessionList", "")
    /\ UNCHANGED <<mounted, pending, alerts, lcw_phase, lcw_isVisible, lcw_isExpanded,
                   lcw_currentSession, lcw_messages, lcw_inputText, lcw_isLoading,
                   lcw_isTyping, lcw_unreadCount, lcw_sessions, lcw_server, lcw_timers,
                   lcw_timeouts, lcw_closed, notLCW>>

\* selectSession; the effect runs again when the session object differs from
\* the current one, which for a session with the id of the current one
\* depends on where the current object came from
selectSession(session) ==
    /\ mounted = "LCW"
    /\ \E effectRuns \in (IF session = lcw_currentSession THEN BOOLEAN ELSE {TRUE}) :
        /\ ChatIdle \/ ~effectRuns
        /\ lcw_timers' = IF effectRuns THEN SessionEffectTimers(session) ELSE lcw_timers
        /\ pending' = pending \o (IF effectRuns THEN SessionEffectCalls(session) ELSE <<>>)
    /\ lcw_currentSession' = session
    /\ lcw_showSessionList' = FALSE
    /\ lcw_isExpanded' = TRUE
    /\ lcw_closed' = lcw_closed \ {session}
    /\ event' = Ev("LCW.selectSession", session)
    /\ UNCHANGED <<mounted, alerts, lcw_phase, lcw_isVisible, lcw_messages, lcw_inputText,
                   lcw_isLoading, lcw_isTyping, lcw_unreadCount, lcw_sessions, lcw_server,
                   lcw_timeouts, notLCW>>

\* a session of the list
LCW_PressSession(session) ==
    /\ LCW_ListTouchable
    /\ session \in Known(lcw_sessions)
    /\ selectSession(session)

\* a touch reaches the chat window
LCW_WindowTouchable ==
    /\ UIReady("LCW")
    /\ lcw_phase = "alive"
    /\ lcw_isVisible
    /\ lcw_isExpanded
    /\ ~lcw_showSessionList

\* list icon of the chat header: rendered when sessions.length > 1
LCW_PressListButton ==
    /\ LCW_WindowTouchable
    /\ Cardinality(Known(lcw_sessions)) > 1
    /\ lcw_isExpanded' = FALSE
    /\ lcw_showSessionList' = TRUE
    /\ event' = Ev("LCW.PressListButton", "")
    /\ UNCHANGED <<mounted, pending, alerts, lcw_phase, lcw_isVisible, lcw_currentSession,
                   lcw_messages, lcw_inputText, lcw_isLoading, lcw_isTyping,
                   lcw_unreadCount, lcw_sessions, lcw_server, lcw_timers, lcw_timeouts,
                   lcw_closed, notLCW>>

\* chevron of the chat header and onRequestClose of the chat window
LCW_Collapse ==
    /\ LCW_WindowTouchable
    /\ lcw_isExpanded' = FALSE
    /\ event' = Ev("LCW.Collapse", "")
    /\ UNCHANGED <<mounted, pending, alerts, lcw_phase, lcw_isVisible, lcw_currentSession,
                   lcw_messages, lcw_inputText, lcw_isLoading, lcw_isTyping,
                   lcw_unreadCount, lcw_sessions, lcw_showSessionList, lcw_server,
                   lcw_timers, lcw_timeouts, lcw_closed, notLCW>>

\* sendUserMessage up to await sendMessage(...)
sendUserMessage(inputText) ==
    /\ mounted = "LCW"
    /\ event' = Ev("LCW.sendUserMessage", lcw_currentSession)
    /\ IF Blank(inputText) \/ lcw_currentSession = "null"
       THEN UNCHANGED <<pending, lcw_inputText, lcw_isTyping, lcw_messages>>
       ELSE /\ ChatIdle
            /\ lcw_inputText' = <<>>
            /\ lcw_isTyping' = TRUE
            /\ lcw_messages' = lcw_messages \cup {lcw_currentSession}
            /\ pending' = Append(pending, Promise("LCW.sendMessage", lcw_currentSession, ""))
    /\ UNCHANGED <<mounted, alerts, lcw_phase, lcw_isVisible, lcw_isExpanded,
                   lcw_currentSession, lcw_isLoading, lcw_unreadCount, lcw_sessions,
                   lcw_showSessionList, lcw_server, lcw_timers, lcw_timeouts, lcw_closed,
                   notLCW>>

\* the user types t and presses the send button: disabled={!inputText.trim()}
LCW_PressSend(t) ==
    /\ LCW_WindowTouchable
    /\ ~Blank(t)
    /\ sendUserMessage(t)

\* sendUserMessage resumes after await sendMessage(...): the reload is
\* scheduled with setTimeout
LCW_SendContinue ==
    /\ \E i \in 1..Len(pending) : \E p \in SettledAs(i) :
        /\ Resumes(i, "LCW.sendMessage")
        /\ event' = Ev("LCW.sendMessage." \o p.st, pending[i].arg)
        /\ pending' = RemoveAt(pending, i)
        /\ IF p.st = "rejected"
           THEN /\ lcw_isTyping' = FALSE
                /\ alerts' = Append(alerts, AlertBox("Error", "Failed to send message", ""))
                /\ UNCHANGED lcw_timeouts
           ELSE /\ lcw_timeouts' = Append(lcw_timeouts, pending[i].arg)
                /\ UNCHANGED <<alerts, lcw_isTyping>>
    /\ UNCHANGED <<mounted, lcw_phase, lcw_isVisible, lcw_isExpanded, lcw_currentSession,
                   lcw_messages, lcw_inputText, lcw_isLoading, lcw_unreadCount,
                   lcw_sessions, lcw_showSessionList, lcw_server, lcw_timers, lcw_closed,
                   notLCW>>

\* closeCurrentSession up to await closeChatSession(currentSession.id)
closeCurrentSession ==
    /\ mounted = "LCW"
    /\ event' = Ev("LCW.closeCurrentSession", lcw_currentSession)
    /\ IF lcw_currentSession = "null"
       THEN UNCHANGED pending
       ELSE /\ Len(pending) + 1 < MaxInFlight
            /\ pending' = Append(pending,
                   Promise("LCW.closeChatSession", lcw_currentSession, ""))
    /\ UNCHANGED <<mounted, alerts, lcwVars, notLCW>>

\* close-circle icon of the chat header
LCW_PressCloseSession ==
    /\ LCW_WindowTouchable
    /\ closeCurrentSession

\* closeCurrentSession resumes after await closeChatSession(...), then
\* loadSessions up to its await
LCW_CloseSessionContinue ==
    /\ \E i \in 1..Len(pending) : \E p \in SettledAs(i) :
        /\ Resumes(i, "LCW.closeChatSession")
        /\ event' = Ev("LCW.closeChatSession." \o p.st, pending[i].arg)
        /\ IF p.st = "rejected"
           THEN /\ pending' = RemoveAt(pending, i)
                /\ UNCHANGED <<lcw_currentSession, lcw_messages, lcw_isExpanded, lcw_server,
                               lcw_timers, lcw_closed>>
           ELSE /\ lcw_server' = [lcw_server EXCEPT ![pending[i].arg] = "closed"]
                /\ lcw_closed' = lcw_closed \cup {pending[i].arg}
                /\ lcw_currentSession' = "null"
                /\ lcw_timers' = SessionEffectTimers("null")
                /\ lcw_messages' = {}
                /\ lcw_isExpanded' = FALSE
                /\ pending' = RemoveAt(pending, i) \o
                       <<Promise("LCW.getChatSessions", "",
                                 [from |-> "close", sessionId |-> "null"])>>
    /\ UNCHANGED <<mounted, alerts, lcw_phase, lcw_isVisible, lcw_inputText, lcw_isLoading,
                   lcw_isTyping, lcw_unreadCount, lcw_sessions, lcw_showSessionList,
                   lcw_timeouts, notLCW>>

\* the widget unmounts (App stops rendering it): the cleanup of the effect
\* on [currentSession] runs and the state of the component is discarded
LCW_Unmount ==
    /\ mounted = "LCW"
    /\ lcw_phase = "alive"
    /\ lcw_phase' = "unmounted"
    /\ lcw_timers' = SessionEffectTimers("null")
    /\ lcw_isVisible' = FALSE
    /\ lcw_isExpanded' = FALSE
    /\ lcw_currentSession' = "null"
    /\ lcw_messages' = {}
    /\ lcw_inputText' = <<>>
    /\ lcw_isLoading' = FALSE
    /\ lcw_isTyping' = FALSE
    /\ lcw_unreadCount' = 0
    /\ lcw_sessions' = NoSessions
    /\ lcw_showSessionList' = FALSE
    /\ lcw_closed' = {}
    /\ event' = Ev("LCW.Unmount", "")
    /\ UNCHANGED <<mounted, pending, alerts, lcw_server, lcw_timeouts, notLCW>>

\* after the unmount a resumed handler or a delayed reload sets state of an
\* unmounted component, which React ignores
LCW_AfterUnmount ==
    /\ mounted = "LCW"
    /\ lcw_phase = "unmounted"
    /\ \/ /\ \E i \in 1..Len(pending) : pending' = RemoveAt(pending, i)
          /\ UNCHANGED lcw_timeouts
       \/ /\ lcw_timeouts # <<>>
          /\ lcw_timeouts' = Tail(lcw_timeouts)
          /\ UNCHANGED pending
    /\ event' = Ev("LCW.AfterUnmount", "")
    /\ UNCHANGED <<mounted, alerts, lcw_phase, lcwState, lcw_server, lcw_timers,
                   lcw_closed, notLCW>>

\* ------------------------------------------------------------- LiveJobMap
JobIds == {"j1", "j2"}

\* the order locations.forEach visits the jobs of a list in
JobOrder == <<"j1", "j2">>

\* jobMarkers: for each job id the index in ljm_markers of its Marker
\* object, 0 when the object has no such key
NoMarkers == [job \in JobIds |-> 0]

\* the effect on []: initMap up to await loadGoogleMapsScript()
LJM_Mount ==
    /\ mounted = "LJM"
    /\ ljm_loading
    /\ pending = <<>>
    /\ pending' = Append(pending, Promise("LJM.loadGoogleMapsScript", "", ""))
    /\ event' = Ev("LJM.Mount", "")
    /\ UNCHANGED <<mounted, alerts, ljmVars, notLJM>>

\* initMap resumes after await loadGoogleMapsScript(); with the map set the
\* effect on [map, mechanicId, jobMarkers] subscribes
LJM_InitMapContinue ==
    /\ mounted = "LJM"
    /\ \E i \in 1..Len(pending) : \E p \in SettledAs(i) :
        /\ pending[i].fn = "LJM.loadGoogleMapsScript"
        /\ pending' = RemoveAt(pending, i)
        /\ event' = Ev("LJM.loadGoogleMapsScript." \o p.st, "")
        /\ ljm_map' = (p.st = "resolved")
    /\ ljm_loading' = FALSE
    /\ ljm_closure' = ljm_jobMarkers
    /\ UNCHANGED <<mounted, alerts, ljm_jobMarkers, ljm_markers, ljm_latest, notLJM>>

\* the jobs of a location list that get a new Marker, in creation order
NewJobs(locations, jobMarkers) ==
    SelectSeq(JobOrder, LAMBDA job : job \in locations /\ jobMarkers[job] = 0)

IndexOf(seq, x) == CHOOSE i \in 1..Len(seq) : seq[i] = x

\* the callback passed to subscribeToJobLocations, with the jobMarkers of
\* the render that subscribed: markers of jobs absent from the list are
\* detached with setMap(null), a job with a marker keeps it, a job without
\* one gets a new Marker on the map; then setJobMarkers(newJobMarkers)
LJM_LocationsCallback(locations) ==
    /\ mounted = "LJM"
    /\ ljm_map
    /\ LET created == NewJobs(locations, ljm_closure)
       IN  /\ Len(ljm_markers) + Len(created) <= MaxMarkers
           /\ ljm_markers' =
                  [i \in 1..Len(ljm_markers) |->
                      IF /\ ljm_closure[ljm_markers[i].job] = i
                         /\ ljm_markers[i].job \notin locations
                      THEN [ljm_markers[i] EXCEPT !.attached = FALSE]
                      ELSE ljm_markers[i]]
                  \o [k \in 1..Len(created) |-> [job |-> created[k], attached |-> TRUE]]
           /\ ljm_jobMarkers' =
                  [job \in JobIds |->
                      IF job \notin locations THEN 0
                      ELSE IF ljm_closure[job] # 0 THEN ljm_closure[job]
                      ELSE Len(ljm_markers) + IndexOf(created, job)]
    /\ ljm_latest' = locations
    /\ event' = Ev("LJM.LocationsCallback", locations)
    /\ UNCHANGED <<mounted, pending, alerts, ljm_map, ljm_loading, ljm_closure, notLJM>>

\* the component re-renders with the new jobMarkers: the effect's cleanup
\* unsubscribes and the effect subscribes a callback of this render
LJM_Render ==
    /\ mounted = "LJM"
    /\ ljm_map
    /\ ljm_closure # ljm_jobMarkers
    /\ ljm_closure' = ljm_jobMarkers
    /\ event' = Ev("LJM.Render", "")
    /\ UNCHANGED <<mounted, pending, alerts, ljm_map, ljm_loading, ljm_jobMarkers,
                   ljm_markers, ljm_latest, notLJM>>

\* -------------------------------------------------------------------- App
Users == {"null", "u1"}

PublicPaths == {"/login", "/signup"}

ProtectedPaths == {"/dashboard", "/service-requests", "/service-requests/:id",
                   "/request-service", "/my-vehicles", "/job-map"}

\* locations the browser can be at: the routes, the default route and a
\* location no route matches
Paths == PublicPaths \cup ProtectedPaths \cup {"/", "/other"}

Page(name) == [kind |-> "page", name |-> name]

Navigate(to) == [kind |-> "navigate", name |-> to]

PageOf(path) ==
    IF path = "/login" THEN "Login"
    ELSE IF path = "/signup" THEN "SignupForm"
    ELSE IF path = "/dashboard" THEN "Dashboard"
    ELSE IF path = "/service-requests" THEN "ServiceRequests"
    ELSE IF path = "/service-requests/:id" THEN "RequestDetails"
    ELSE IF path = "/request-service" THEN "ServiceRequestForm"
    ELSE IF path = "/my-vehicles" THEN "VehicleGarageManager"
    ELSE "LiveJobMap"

\* the routes with /job-map rendered whatever the user is
RouteElement_OpenJobMap(user, path) ==
    IF path \in PublicPaths
    THEN IF user = "null" THEN Page(PageOf(path)) ELSE Navigate("/dashboard")
    ELSE IF path = "/job-map"
    THEN Page(PageOf(path))
    ELSE IF path \in ProtectedPaths
    THEN IF user # "null" THEN Page(PageOf(path)) ELSE Navigate("/login")
    ELSE IF path = "/"
    THEN Navigate(IF user # "null" THEN "/dashboard" ELSE "/login")
    ELSE [kind |-> "none", name |-> ""]

\* the element of the <Route> that matches path
RouteElement(user, path) ==
    IF path \in PublicPaths
    THEN IF user = "null" THEN Page(PageOf(path)) ELSE Navigate("/dashboard")
    ELSE IF path \in ProtectedPaths
    THEN IF user # "null" THEN Page(PageOf(path)) ELSE Navigate("/login")
    ELSE IF path = "/"
    THEN Navigate(IF user # "null" THEN "/dashboard" ELSE "/login")
    ELSE [kind |-> "none", name |-> ""]

\* a rendered <Navigate> replaces the location
Redirect(user, path) ==
    IF RouteElement(user, path).kind = "navigate" THEN RouteElement(user, path).name
    ELSE path

\* the location once the rendered <Navigate> elements have acted
Settled(user, path) == Redirect(user, Redirect(user, path))

\* what App renders: the loading text, or the element of the matching route
Rendered ==
    IF app_loading THEN [kind |-> "loading", name |-> ""]
    ELSE RouteElement(app_user, app_path)

\* {user && <LiveChatWidget ... />} below the routes
WidgetRendered == ~app_loading /\ app_user # "null"

\* the callback passed to onAuthStateChanged, then the render of the routes
APP_AuthStateChanged(currentUser) ==
    /\ mounted = "APP"
    /\ app_user' = currentUser
    /\ app_loading' = FALSE
    /\ app_path' = Settled(currentUser, app_path)
    /\ event' = Ev("APP.AuthStateChanged", currentUser)
    /\ UNCHANGED <<mounted, pending, alerts, notAPP>>

\* the browser goes to a location (link, address bar, history)
APP_Navigate(path) ==
    /\ mounted = "APP"
    /\ app_path' = IF app_loading THEN path ELSE Settled(app_user, path)
    /\ event' = Ev("APP.Navigate", path)
    /\ UNCHANGED <<mounted, pending, alerts, app_user, app_loading, notAPP>>

InitState ==
    /\ pending = <<>>
    /\ alerts = <<>>
    /\ event = Ev("mount", "")
    /\ jsm_currentStatus \in (IF mounted = "JSM" THEN JobStatusInputs ELSE {"pending"})
    /\ jsm_customStatuses \in (IF mounted = "JSM" THEN CustomStatusInputs ELSE {<<>>})
    /\ jsm_isMechanic \in (IF mounted = "JSM" THEN BOOLEAN ELSE {FALSE})
    /\ jsm_statusHistory \in (IF mounted = "JSM" THEN StatusHistoryInputs ELSE {<<>>})
    /\ jsm_showHistory = FALSE
    /\ jsm_loading = FALSE
    /\ jsm_showAddStatusModal = FALSE
    /\ jsm_newStatusLabel = <<>>
    /\ jsm_newStatusDescription = <<>>
    /\ jsm_newStatusColor = colorOptions[1]
    /\ pst_currentStatus \in (IF mounted = "PST" THEN PaymentStatusInputs ELSE {"unpaid"})
    /\ pst_isMechanic \in (IF mounted = "PST" THEN BOOLEAN ELSE {FALSE})
    /\ pst_paymentHistory \in (IF mounted = "PST" THEN PaymentHistoryInputs ELSE {<<>>})
    /\ pst_showHistory = FALSE
    /\ pst_loading = FALSE
    /\ pst_selectedStatus = pst_currentStatus
    /\ cjm_visible = FALSE
    /\ cjm_isCustomer \in (IF mounted = "CJM" THEN BOOLEAN ELSE {TRUE})
    /\ cjm_selectedReason = "null"
    /\ cjm_otherReason = <<>>
    /\ cjm_loading = FALSE
    /\ cjm_onCloseCalls = 0
    /\ mn_readOnly \in (IF mounted = "MN" THEN BOOLEAN ELSE {FALSE})
    /\ mn_existingNotes \in (IF mounted = "MN" THEN ExistingNotesInputs ELSE {<<>>})
    /\ mn_newNote = <<>>
    /\ mn_loading = FALSE
    /\ mn_expandedNoteId = "null"
    /\ unhandledRejection = FALSE
    /\ pu_readOnly \in (IF mounted = "PU" THEN BOOLEAN ELSE {FALSE})
    /\ pu_existingPhotos \in (IF mounted = "PU" THEN ExistingPhotosInputs ELSE {<<>>})
    /\ pu_photos = pu_existingPhotos
    /\ pu_uploading = FALSE
    /\ pu_selectedCategory = "before"
    /\ pu_caption = <<>>
    /\ qf_formData = QF_emptyForm
    /\ qf_error = ""
    /\ qf_success = ""
    /\ qf_loading = FALSE
    /\ lpc_visible = FALSE
    /\ lpc_loading = FALSE
    /\ lpc_capturedImage = "null"
    /\ lpc_extractedPlate = ""
    /\ lpc_vehicleInfo = "null"
    /\ lpc_step = "capture"
    /\ lcw_phase = "new"
    /\ lcw_isVisible = FALSE
    /\ lcw_isExpanded = FALSE
    /\ lcw_currentSession = "null"
    /\ lcw_messages = {}
    /\ lcw_inputText = <<>>
    /\ lcw_isLoading = FALSE
    /\ lcw_isTyping = FALSE
    /\ lcw_unreadCount = 0
    /\ lcw_sessions = NoSessions
    /\ lcw_showSessionList = FALSE
    /\ lcw_server \in (IF mounted = "LCW" THEN ServerInputs ELSE {NoSessions})
    /\ lcw_timers = <<>>
    /\ lcw_timeouts = <<>>
    /\ lcw_closed = {}
    /\ ljm_map = FALSE
    /\ ljm_loading = TRUE
    /\ ljm_jobMarkers = NoMarkers
    /\ ljm_closure = NoMarkers
    /\ ljm_markers = <<>>
    /\ ljm_latest = {}
    /\ app_user = "null"
    /\ app_loading = TRUE
    /\ app_path \in (IF mounted = "APP" THEN Paths ELSE {"/"})

Init == mounted \in Components /\ InitState

Next ==
    \/ \E i \in 1..Len(pending) : \E st \in Outcomes(pending[i].fn) :
         \E val \in (IF st = "resolved" THEN ResolveValues(pending[i].fn) ELSE {FALSE}) :
           Settle(i, st, val)
    \/ DismissAlert
    \/ \E id \in Ids(allStatuses) : JSM_PressStatusOption(id)
    \/ JSM_UpdateStatusContinue
    \/ JSM_PressCustom
    \/ JSM_CloseAddStatusModal
    \/ \E t \in Strings : JSM_ChangeLabel(t)
    \/ \E t \in DescriptionInputs : JSM_ChangeDescription(t)
    \/ \E c \in ColorInputs : JSM_PressColor(c)
    \/ JSM_PressAddStatus
    \/ JSM_ToggleHistory
    \/ \E id \in Ids(PAYMENT_STATUSES) : PST_PressStatusOption(id)
    \/ PST_UpdateStatusContinue
    \/ PST_PressSendReminder
    \/ PST_ToggleHistory
    \/ CJM_Open
    \/ \E id \in Ids(CANCEL_REASONS) : CJM_SelectReason(id)
    \/ \E t \in Strings : CJM_ChangeOtherReason(t)
    \/ CJM_PressConfirm
    \/ CJM_CancelContinue
    \/ CJM_PressClose
    \/ CJM_PressGoBack
    \/ \E t \in Strings : MN_ChangeNewNote(t)
    \/ MN_PressAddNote
    \/ \E id \in Ids(mn_existingNotes) : MN_PressExpand(id)
    \/ MN_AddNoteContinue
    \/ \E id \in Ids(mn_existingNotes) : MN_PressDeleteNote(id)
    \/ MN_DeleteDialogCancel
    \/ MN_DeleteDialogDelete
    \/ MN_DeleteNoteContinue
    \/ \E c \in CategoryInputs : PU_SelectCategory(c)
    \/ \E t \in CaptionInputs : PU_ChangeCaption(t)
    \/ \E source \in {"camera", "library"} : PU_PressUploadButton(source)
    \/ PU_PermissionContinue
    \/ PU_LaunchContinue
    \/ PU_DelayContinue
    \/ PU_UploadContinue
    \/ \E id \in Ids(pu_photos) : PU_PressDeletePhoto(id)
    \/ PU_DeleteDialogCancel
    \/ PU_DeleteDialogDelete
    \/ PU_DeleteContinue
    \/ \E name \in DOMAIN QF_FieldInputs : \E value \in QF_FieldInputs[name] :
         handleChange(name, value)
    \/ QF_PressSubmit
    \/ QF_SubmitContinue
    \/ LPC_Open
    \/ \E method \in {"camera", "gallery"} : LPC_PressCapture(method)
    \/ LPC_CaptureContinue
    \/ LPC_PressUseVehicle
    \/ LPC_PressRetry
    \/ LPC_PressClose

Spec == Init /\ [][Next]_vars

\* ------------------------------------------------- handlers called directly
\* The status components with handleUpdateStatus invoked as a function, with
\* any status id and whatever the rendered controls allow.
InitDirect == Init /\ mounted \in {"JSM", "PST"}

JSM_CallHandleUpdateStatus(id) ==
    /\ alerts = <<>>
    /\ ~MicrotaskPending
    /\ JSM_handleUpdateStatus(id)

PST_CallHandleUpdateStatus(id) ==
    /\ alerts = <<>>
    /\ ~MicrotaskPending
    /\ PST_handleUpdateStatus(id)

NextDirect ==
    \/ \E i \in 1..Len(pending) : \E st \in Outcomes(pending[i].fn) :
         \E val \in (IF st = "resolved" THEN ResolveValues(pending[i].fn) ELSE {FALSE}) :
           Settle(i, st, val)
    \/ DismissAlert
    \/ \E id \in Ids(allStatuses) \cup {jsm_currentStatus} : JSM_CallHandleUpdateStatus(id)
    \/ JSM_UpdateStatusContinue
    \/ \E id \in Ids(PAYMENT_STATUSES) \cup {pst_currentStatus} : PST_CallHandleUpdateStatus(id)
    \/ PST_UpdateStatusContinue

SpecDirect == InitDirect /\ [][NextDirect]_vars

\* ------------------------------------------- handlers called on any input
\* The submit handlers are run on whatever the fields hold, including the
\* contents for which the submit button is disabled, while the component is
\* not busy.
InitValidation == Init /\ mounted \in {"JSM", "CJM", "MN", "QF"}

JSM_CallHandleAddCustomStatus ==
    /\ alerts = <<>>
    /\ ~MicrotaskPending
    /\ ~jsm_loading
    /\ JSM_handleAddCustomStatus

CJM_CallHandleCancel ==
    /\ alerts = <<>>
    /\ ~MicrotaskPending
    /\ ~cjm_loading
    /\ CJM_handleCancel

MN_CallHandleAddNote ==
    /\ alerts = <<>>
    /\ ~MicrotaskPending
    /\ ~mn_loading
    /\ handleAddNote

NextValidation ==
    \/ \E i \in 1..Len(pending) : \E st \in Outcomes(pending[i].fn) :
         \E val \in (IF st = "resolved" THEN ResolveValues(pending[i].fn) ELSE {FALSE}) :
           Settle(i, st, val)
    \/ DismissAlert
    \/ JSM_PressCustom
    \/ JSM_CloseAddStatusModal
    \/ \E t \in Strings : JSM_ChangeLabel(t)
    \/ \E t \in DescriptionInputs : JSM_ChangeDescription(t)
    \/ \E c \in ColorInputs : JSM_PressColor(c)
    \/ JSM_CallHandleAddCustomStatus
    \/ CJM_Open
    \/ \E id \in Ids(CANCEL_REASONS) : CJM_SelectReason(id)
    \/ \E t \in Strings : CJM_ChangeOtherReason(t)
    \/ CJM_CallHandleCancel
    \/ CJM_CancelContinue
    \/ CJM_PressClose
    \/ \E t \in Strings : MN_ChangeNewNote(t)
    \/ MN_CallHandleAddNote
    \/ MN_AddNoteContinue
    \/ \E name \in DOMAIN QF_FieldInputs : \E value \in QF_FieldInputs[name] :
         handleChange(name, value)
    \/ QF_PressSubmit
    \/ QF_SubmitContinue

SpecValidation == InitValidation /\ [][NextValidation]_vars

\* ------------------------------------------- status components, fair runs
\* The event loop runs the continuation of a settled promise; nothing makes
\* a promise settle.
InitStatus == Init /\ mounted \in {"JSM", "PST", "CJM"}

NextStatus ==
    \/ \E i \in 1..Len(pending) : \E st \in Outcomes(pending[i].fn) :
         \E val \in (IF st = "resolved" THEN ResolveValues(pending[i].fn) ELSE {FALSE}) :
           Settle(i, st, val)
    \/ DismissAlert
    \/ \E id \in Ids(allStatuses) : JSM_PressStatusOption(id)
    \/ JSM_UpdateStatusContinue
    \/ JSM_PressCustom
    \/ JSM_CloseAddStatusModal
    \/ \E t \in Strings : JSM_ChangeLabel(t)
    \/ \E t \in DescriptionInputs : JSM_ChangeDescription(t)
    \/ \E c \in ColorInputs : JSM_PressColor(c)
    \/ JSM_PressAddStatus
    \/ \E id \in Ids(PAYMENT_STATUSES) : PST_PressStatusOption(id)
    \/ PST_UpdateStatusContinue
    \/ PST_PressSendReminder
    \/ CJM_Open
    \/ \E id \in Ids(CANCEL_REASONS) : CJM_SelectReason(id)
    \/ \E t \in Strings : CJM_ChangeOtherReason(t)
    \/ CJM_PressConfirm
    \/ CJM_CancelContinue
    \/ CJM_PressClose
    \/ CJM_PressGoBack

FairSpec ==
    /\ InitStatus
    /\ [][NextStatus]_vars
    /\ WF_vars(JSM_UpdateStatusContinue)
    /\ WF_vars(PST_UpdateStatusContinue)
    /\ WF_vars(CJM_CancelContinue)


\* ------------------------------------------------------------ page components
Pages == {"LCW", "LJM", "APP"}

InitPages == mounted \in Pages /\ InitState

NextPages ==
    \/ DismissAlert
    \/ LCW_Mount
    \/ LCW_InitContinue
    \/ LCW_LoadSessionsContinue
    \/ LCW_UnreadCountContinue
    \/ LCW_LoadMessagesContinue
    \/ LCW_MarkReadContinue
    \/ LCW_PollTick
    \/ LCW_TimeoutFire
    \/ LCW_CreateSessionContinue
    \/ LCW_PressButtonStart
    \/ LCW_PressButton
    \/ LCW_PressStartNewChat
    \/ LCW_CloseSessionList
    \/ \E session \in SessionIds : LCW_PressSession(session)
    \/ LCW_PressListButton
    \/ LCW_Collapse
    \/ \E t \in ChatInputs : LCW_PressSend(t)
    \/ LCW_SendContinue
    \/ LCW_PressCloseSession
    \/ LCW_CloseSessionContinue
    \/ LCW_Unmount
    \/ LCW_AfterUnmount
    \/ LJM_Mount
    \/ LJM_InitMapContinue
    \/ \E locations \in SUBSET JobIds : LJM_LocationsCallback(locations)
    \/ LJM_Render
    \/ \E currentUser \in Users : APP_AuthStateChanged(currentUser)
    \/ \E path \in Paths : APP_Navigate(path)

SpecPages == InitPages /\ [][NextPages]_vars

\* ================================================================= claims

\* ---------------------------------------------------------------------- C1
\* one step of C1_SameStatusIsNoOp
C1_SameStatusIsNoOp_Step ==
    /\ (event'.op = "JSM.handleUpdateStatus" /\ event'.arg = jsm_currentStatus)
       => UNCHANGED <<pending, alerts, jsmVars>>
    /\ (event'.op = "PST.handleUpdateStatus" /\ event'.arg = pst_currentStatus)
       => UNCHANGED <<pending, alerts, pstVars>>

\* C1: handleUpdateStatus(newStatus) called with the current status id, in
\* JobStatusManager or PaymentStatusTracker, is a no-op: no onUpdateStatus
\* call is made, the busy flag does not change and nothing else does.
C1_SameStatusIsNoOp == [][C1_SameStatusIsNoOp_Step]_vars

\* the handler has just been called with the current status while idle
C1_Witness ==
    /\ event.op = "JSM.handleUpdateStatus"
    /\ event.arg = jsm_currentStatus
    /\ pending = <<>>
    /\ ~jsm_loading

\* ---------------------------------------------------------------------- C2
\* one step of C2_RejectLeavesStatus
C2_RejectLeavesStatus_Step ==
    /\ event'.op = "JSM.onUpdateStatus.rejected" =>
        /\ alerts' = Append(alerts, AlertBox("Error", "Failed to update job status", ""))
        /\ jsm_loading' = FALSE
        /\ jsm_currentStatus' = event'.arg.ctx.currentStatus
    /\ event'.op = "PST.onUpdateStatus.rejected" =>
        /\ alerts' = Append(alerts, AlertBox("Error", "Failed to update payment status", ""))
        /\ pst_loading' = FALSE
        /\ pst_currentStatus' = event'.arg.ctx.currentStatus
        /\ pst_selectedStatus' = event'.arg.ctx.selectedStatus

\* C2: when onUpdateStatus rejects, the status component raises its failure
\* alert, clears the busy flag and leaves currentStatus and selectedStatus
\* at the values they had when the call was made.
C2_RejectLeavesStatus == [][C2_RejectLeavesStatus_Step]_vars

\* a rejected job-status update has just been handled
C2_Witness ==
    /\ event.op = "JSM.onUpdateStatus.rejected"
    /\ alerts # <<>>
    /\ ~jsm_loading

\* ---------------------------------------------------------------------- C3
\* C3 as stated: PaymentStatusTracker sets selectedStatus to the requested
\* id before the call is confirmed, so selectedStatus is the requested id
\* while the call is awaited or has been rejected.
C3_MirrorSetBeforeConfirm ==
    \A i \in 1..Len(pending) :
        (pending[i].fn = "PST.onUpdateStatus" /\ pending[i].st # "resolved")
            => pst_selectedStatus = pending[i].arg

\* one step of C3_MirrorSetOnSuccessOnly
C3_MirrorSetOnSuccessOnly_Step ==
    /\ pst_selectedStatus' # pst_selectedStatus =>
        /\ event'.op = "PST.onUpdateStatus.resolved"
        /\ pst_selectedStatus' = event'.arg.arg
    /\ event'.op = "PST.onUpdateStatus.rejected" =>
        pst_selectedStatus' = event'.arg.ctx.selectedStatus

\* C3 amended: selectedStatus changes only when onUpdateStatus has resolved,
\* to the requested id; a rejected call leaves it at its value before the
\* call.
C3_MirrorSetOnSuccessOnly == [][C3_MirrorSetOnSuccessOnly_Step]_vars

\* a rejected payment update left the mirror on the current status
C3_Witness ==
    /\ event.op = "PST.onUpdateStatus.rejected"
    /\ event.arg.arg # pst_selectedStatus
    /\ pst_selectedStatus = pst_currentStatus

\* ---------------------------------------------------------------------- C4
\* a resolved update from unpaid to paid has just been handled
C4_PaidResolved ==
    /\ event.op = "PST.onUpdateStatus.resolved"
    /\ event.arg.arg = "paid"
    /\ event.arg.ctx.currentStatus = "unpaid"

\* C4 as stated: after the update from unpaid to paid resolved,
\* currentStatus is paid and the busy flag is false.
C4_CurrentStatusPaid ==
    C4_PaidResolved => (pst_currentStatus = "paid" /\ ~pst_loading)

\* C4 amended: after the update from unpaid to paid resolved, selectedStatus
\* is paid and the busy flag is false; the currentStatus prop is not written
\* by the component and is still unpaid.
C4_SelectedStatusPaid ==
    C4_PaidResolved =>
        (pst_selectedStatus = "paid" /\ ~pst_loading /\ pst_currentStatus = "unpaid")

C4_Witness == C4_PaidResolved /\ pst_selectedStatus = "paid"

\* ---------------------------------------------------------------------- C5
\* C5 as stated: when onUpdateStatus(newStatusId) resolves in
\* JobStatusManager, the busy flag is cleared and the current status is
\* newStatusId.
C5_CurrentAdvances ==
    event.op = "JSM.onUpdateStatus.resolved" =>
        (~jsm_loading /\ jsm_currentStatus = event.arg.arg)

\* one step of C5_ResolveClearsBusyOnly
C5_ResolveClearsBusyOnly_Step ==
    event'.op = "JSM.onUpdateStatus.resolved" =>
        /\ jsm_loading' = FALSE
        /\ jsm_currentStatus' = event'.arg.ctx.currentStatus
        /\ UNCHANGED <<alerts, jsmProps, jsm_showAddStatusModal, jsm_newStatusLabel,
                       jsm_newStatusDescription, jsm_newStatusColor>>

\* C5 amended: when onUpdateStatus(newStatusId) resolves, the busy flag is
\* cleared, no alert is raised and the component changes nothing else: it
\* keeps no current-status pointer of its own and leaves the currentStatus
\* prop as the parent passed it.
C5_ResolveClearsBusyOnly == [][C5_ResolveClearsBusyOnly_Step]_vars

\* a resolved job-status update has just been handled
C5_Witness ==
    /\ event.op = "JSM.onUpdateStatus.resolved"
    /\ ~jsm_loading
    /\ jsm_currentStatus # event.arg.arg

\* ---------------------------------------------------------------------- C6
\* a reason is selected and, for 'other', the free text is not blank
CJM_ReasonGiven ==
    /\ cjm_selectedReason # "null"
    /\ cjm_selectedReason = "other" => ~Blank(cjm_otherReason)

\* C6: the confirm control cannot be pressed while no reason is selected or
\* while 'other' is selected with blank free text; with no call in flight it
\* can be pressed exactly when a reason is given; onCancel is never invoked
\* without a reason or with 'other' and blank text.
C6_ConfirmGate ==
    mounted = "CJM" =>
        /\ ~CJM_ReasonGiven => ~ENABLED CJM_PressConfirm
        /\ (UIReady("CJM") /\ cjm_visible /\ ~cjm_loading)
              => (ENABLED CJM_PressConfirm <=> CJM_ReasonGiven)
        /\ \A i \in 1..Len(pending) :
              /\ pending[i].arg.reason # "null"
              /\ pending[i].arg.reason = "other" => ~Blank(pending[i].ctx.otherReason)

\* 'other' is selected and the free text is whitespace only
C6_Witness ==
    /\ UIReady("CJM")
    /\ cjm_visible
    /\ ~cjm_loading
    /\ cjm_selectedReason = "other"
    /\ cjm_otherReason = <<" ">>

\* ---------------------------------------------------------------------- C7
\* one step of C7_CancelOutcome
C7_CancelOutcome_Step ==
    /\ event'.op = "CJM.onCancel.resolved" =>
        /\ cjm_selectedReason' = "null"
        /\ cjm_otherReason' = <<>>
        /\ ~cjm_visible'
        /\ cjm_onCloseCalls' = cjm_onCloseCalls + 1
    /\ event'.op = "CJM.onCancel.rejected" =>
        /\ alerts' = Append(alerts, AlertBox("Error",
               "Failed to cancel job. Please try again.", ""))
        /\ cjm_visible'
        /\ cjm_selectedReason' = event'.arg.ctx.selectedReason
        /\ cjm_otherReason' = event'.arg.ctx.otherReason

\* C7: when onCancel resolves, reason and free text are reset and onClose is
\* called; when it rejects, the failure alert is raised, the modal is still
\* open and reason and free text are those of the submission.
C7_CancelOutcome == [][C7_CancelOutcome_Step]_vars

\* ---------------------------------------------------------------------- C8
\* the busy flag of the mounted status component
StatusBusy ==
    \/ mounted = "JSM" /\ jsm_loading
    \/ mounted = "PST" /\ pst_loading
    \/ mounted = "CJM" /\ cjm_loading

\* one step of C8_OneOutstandingCall
C8_OneOutstandingCall_Step ==
    mounted \in {"JSM", "PST", "CJM"} =>
        /\ Len(pending') <= 1
        /\ StatusBusy => Len(pending') <= Len(pending)

\* C8: JobStatusManager, PaymentStatusTracker and CancelJobModal have at
\* most one onUpdateStatus / onCancel call outstanding, and none is started
\* while the busy flag is set.
C8_OneOutstandingCall == [][C8_OneOutstandingCall_Step]_vars

\* the user acted on the modal while its onCancel call was outstanding
C8_Witness ==
    /\ mounted = "CJM"
    /\ Len(pending) = 1
    /\ cjm_loading
    /\ event.op = "CJM.SelectReason"

\* ---------------------------------------------------------------------- C9
MutatingCalls ==
    {i \in 1..Len(pending) :
        pending[i].fn \in {"MN.onAddNote", "MN.onDeleteNote",
                           "PU.onUploadPhoto", "PU.onDeletePhoto"}}

\* C9: MechanicNotes and PhotoUpload have at most one mutating call
\* (onAddNote, onDeleteNote, onUploadPhoto, onDeletePhoto) outstanding.
C9_OneMutatingCall ==
    mounted \in {"MN", "PU"} => Cardinality(MutatingCalls) <= 1

\* --------------------------------------------------------------------- C10
CallbackAwaited ==
    \E i \in 1..Len(pending) : pending[i].st = "pending"

CallbackSettled ==
    \E i \in 1..Len(pending) : pending[i].st # "pending"

\* one step of C10_BusyUntilSettled
C10_BusyUntilSettled_Step ==
    /\ (CallbackAwaited /\ ~CallbackAwaited') => event'.op = "Settle"
    /\ Len(pending') > Len(pending) =>
          event'.op \in {"JSM.handleUpdateStatus", "PST.handleUpdateStatus",
                         "CJM.handleCancel"}

\* C10: in the status components the busy flag is true from the invocation
\* of the callback until its continuation has run; once the callback has
\* settled the busy flag becomes false; while it has not settled the busy
\* flag stays true, the wait ending only by the callback settling and no
\* new call being made except by a handler the user triggered.
C10_BusyUntilSettled ==
    /\ []((CallbackAwaited \/ CallbackSettled) => StatusBusy)
    /\ (CallbackSettled ~> ~StatusBusy)
    /\ [][C10_BusyUntilSettled_Step]_vars

\* a rejected onCancel whose continuation has not run yet
C10_Witness ==
    /\ mounted = "CJM"
    /\ CallbackSettled
    /\ cjm_loading
    /\ pending[1].st = "rejected"

\* --------------------------------------------------------------------- C11
\* one step of C11_CloseResets
C11_CloseResets_Step ==
    event'.op \in {"CJM.PressClose", "CJM.PressGoBack"} =>
        /\ cjm_selectedReason' = "null"
        /\ cjm_otherReason' = <<>>
        /\ ~cjm_visible'
        /\ cjm_onCloseCalls' = cjm_onCloseCalls + 1
        /\ UNCHANGED <<alerts, pending, cjm_loading>>

\* C11: closing CancelJobModal without submitting (header close, platform
\* back request, Go Back) sets the reason to unset and the free text to
\* empty and calls onClose once, raising no dialog, whatever the fields and
\* the busy flag were; the header close is available whenever the modal is
\* on screen.
C11_CloseResets ==
    /\ [][C11_CloseResets_Step]_vars
    /\ []((UIReady("CJM") /\ cjm_visible) => ENABLED CJM_PressClose)

\* the modal was closed from the header while a submission with reason
\* 'other' was in flight
C11_Witness ==
    /\ event.op = "CJM.PressClose"
    /\ Len(pending) = 1
    /\ pending[1].ctx.selectedReason = "other"
    /\ cjm_loading
    /\ cjm_selectedReason = "null"
    /\ cjm_otherReason = <<>>

\* --------------------------------------------------------------------- C12
\* C12: every record handed to onCancel has a reason among the six fixed
\* ids, reasonText equal to the free text for 'other' and to the reason's
\* label otherwise, cancelledBy 'customer' exactly when isCustomer; the
\* reason is never unset and, for 'other', the free text is never blank.
C12_CancellationRecord ==
    \A i \in 1..Len(pending) :
        pending[i].fn = "CJM.onCancel" =>
            LET d == pending[i].arg
                text == pending[i].ctx.otherReason
            IN  /\ d.reason \in Ids(CANCEL_REASONS)
                /\ Len(CANCEL_REASONS) = 6
                /\ d.reason = pending[i].ctx.selectedReason
                /\ d.reason = "other" =>
                       (d.reasonText = Str(text) /\ Trim(text) # <<>>)
                /\ d.reason # "other" =>
                       \E j \in 1..Len(CANCEL_REASONS) :
                           /\ CANCEL_REASONS[j].id = d.reason
                           /\ CANCEL_REASONS[j].label = d.reasonText
                /\ (d.cancelledBy = "customer") <=> cjm_isCustomer
                /\ d.cancelledBy \in {"customer", "mechanic"}

\* a mechanic's cancellation with reason 'other' and free text " a" is in
\* flight
C12_Witness ==
    /\ Len(pending) = 1
    /\ pending[1].fn = "CJM.onCancel"
    /\ pending[1].arg.reason = "other"
    /\ pending[1].arg.reasonText = " a"
    /\ pending[1].arg.cancelledBy = "mechanic"

\* --------------------------------------------------------------------- C13
\* def is what the catalog must resolve id to, when id is in the catalog
C13_Resolves(id, def) ==
    /\ id \in Ids(DEFAULT_STATUSES) =>
           \E j \in 1..Len(DEFAULT_STATUSES) :
               /\ DEFAULT_STATUSES[j].id = id
               /\ def = DEFAULT_STATUSES[j]
    /\ (id \notin Ids(DEFAULT_STATUSES) /\ id \in Ids(jsm_customStatuses)) =>
           \E j \in 1..Len(jsm_customStatuses) :
               /\ jsm_customStatuses[j].id = id
               /\ \A k \in 1..(j - 1) : jsm_customStatuses[k].id # id
               /\ def = jsm_customStatuses[j]

\* C13: in JobStatusManager an id of the built-in list resolves to the
\* built-in definition whatever the custom list holds, and an id found only
\* in the custom list resolves to its first custom definition; this holds
\* for the current-status badge and for every history entry.
C13_CatalogLookup ==
    mounted = "JSM" =>
        /\ C13_Resolves(jsm_currentStatus, statusObj)
        /\ \A i \in 1..Len(jsm_statusHistory) :
               C13_Resolves(Str(jsm_statusHistory[i].status),
                            renderStatusHistoryItem(jsm_statusHistory[i]).status)

\* the badge shows 'cancelled' and the open history shows 'quoted' while the
\* custom list redefines both ids
C13_Witness ==
    /\ mounted = "JSM"
    /\ jsm_currentStatus = "cancelled"
    /\ {"cancelled", "quoted"} \subseteq Ids(jsm_customStatuses)
    /\ statusObj.label = "Cancelled"
    /\ jsm_showHistory
    /\ JSM_historyList[1].status.label = "Quoted"

\* --------------------------------------------------------------------- C14
\* the label expected for an unknown job status id given as characters
C14_FirstUpper(s) ==
    IF Len(s) = 0 THEN ""
    ELSE toUpperCase(s[1]) \o Str(SubSeq(s, 2, Len(s)))

\* C14: an id found in no catalog resolves to a display definition: the
\* badge of JobStatusManager and of PaymentStatusTracker shows the first
\* built-in entry, a job history entry shows a definition whose id is the
\* raw id and whose label is the raw id with its first character in upper
\* case, a payment history entry shows the raw id.
C14_UnknownIdFallback ==
    /\ mounted = "JSM" =>
        /\ jsm_currentStatus \notin Ids(allStatuses) =>
               (statusObj = DEFAULT_STATUSES[1] /\ statusObj.label = "Pending")
        /\ \A i \in 1..Len(jsm_statusHistory) :
               LET s == jsm_statusHistory[i].status
                   d == renderStatusHistoryItem(jsm_statusHistory[i]).status
               IN  Str(s) \notin Ids(allStatuses) =>
                       /\ d.id = Str(s)
                       /\ d.label = C14_FirstUpper(s)
                       /\ Str(s) = "lost" => d.label = "Lost"
                       /\ Str(s) = "2nd" => d.label = "2nd"
    /\ mounted = "PST" =>
        /\ pst_currentStatus \notin Ids(PAYMENT_STATUSES) =>
               (PST_statusObj = PAYMENT_STATUSES[1] /\ PST_statusObj.label = "Unpaid")
        /\ \A i \in 1..Len(pst_paymentHistory) :
               LET s == pst_paymentHistory[i].status
               IN  Str(s) \notin Ids(PAYMENT_STATUSES) =>
                       PST_historyLabel(pst_paymentHistory[i]) = Str(s)

\* JobStatusManager shows the unknown current status 'archived' and the open
\* history holds the unknown ids 'lost', '2nd' and ''
C14_Witness ==
    /\ mounted = "JSM"
    /\ jsm_currentStatus = "archived"
    /\ statusObj.id = "pending"
    /\ jsm_showHistory
    /\ JSM_historyList[3].status.label = "Lost"
    /\ JSM_historyList[5].status.label = "2nd"
    /\ JSM_historyList[6].status.label = ""

\* --------------------------------------------------------------------- C15
\* one step of C15_NeverCancelled
C15_NeverCancelled_Step ==
    event'.op = "JSM.handleUpdateStatus" => event'.arg # "cancelled"

\* C15: JobStatusManager never calls onUpdateStatus('cancelled'): the
\* options list holds every entry of the catalog, built-in and custom, in
\* catalog order, except the entries whose id is 'cancelled'.
C15_NeverCancelled ==
    /\ [][C15_NeverCancelled_Step]_vars
    /\ [](mounted = "JSM" =>
            /\ \A i \in 1..Len(pending) :
                   pending[i].fn = "JSM.onUpdateStatus" => pending[i].arg # "cancelled"
            /\ Ids(jsmStatusOptions) = Ids(allStatuses) \ {"cancelled"}
            /\ Len(jsmStatusOptions) =
                   Cardinality({i \in 1..Len(allStatuses) :
                                    allStatuses[i].id # "cancelled"})
            /\ \A i \in 1..Len(jsmStatusOptions) :
                   \E j \in i..Len(allStatuses) : allStatuses[j] = jsmStatusOptions[i])

\* a status was requested from the options while the catalog holds a
\* built-in and a custom 'cancelled'
C15_Witness ==
    /\ mounted = "JSM"
    /\ event.op = "JSM.handleUpdateStatus"
    /\ Len(pending) = 1
    /\ pending[1].arg = "quoted"
    /\ "cancelled" \in Ids(jsm_customStatuses)
    /\ jsm_currentStatus = "completed"

\* --------------------------------------------------------------------- C16
\* the handler that has just been called found its input invalid
C16_CancelInvalid ==
    /\ event'.op = "CJM.handleCancel"
    /\ \/ cjm_selectedReason = "null"
       \/ (cjm_selectedReason = "other" /\ Trim(cjm_otherReason) = <<>>)

C16_NoteInvalid == event'.op = "MN.handleAddNote" /\ Trim(mn_newNote) = <<>>

C16_LabelInvalid ==
    event'.op = "JSM.handleAddCustomStatus" /\ Trim(jsm_newStatusLabel) = <<>>

C16_QuoteInvalid ==
    /\ event'.op = "QF.handleSubmit"
    /\ \/ qf_formData.laborCost = <<>>
       \/ qf_formData.estimatedHours = <<>>
       \/ qf_formData.totalCost = <<>>

\* one step of C16_ValidationNoMutation
C16_ValidationNoMutation_Step ==
    /\ C16_CancelInvalid => UNCHANGED <<pending, cjmVars>>
    /\ C16_NoteInvalid => UNCHANGED <<pending, mnVars>>
    /\ C16_LabelInvalid => UNCHANGED <<pending, jsmVars>>
    /\ C16_QuoteInvalid => UNCHANGED <<pending, qfVars>>

\* C16 as stated: a validation failure in handleCancel, handleAddNote,
\* handleAddCustomStatus or handleSubmit starts no external call and leaves
\* every state variable of the component unchanged.
C16_ValidationNoMutation == [][C16_ValidationNoMutation_Step]_vars

\* one step of C16_ValidationFrame
C16_ValidationFrame_Step ==
    /\ C16_CancelInvalid =>
        /\ UNCHANGED <<pending, cjmVars>>
        /\ alerts' = Append(alerts, AlertBox("Error",
               IF cjm_selectedReason = "null"
               THEN "Please select a cancellation reason"
               ELSE "Please provide details for your cancellation reason", ""))
    /\ C16_NoteInvalid =>
        /\ UNCHANGED <<pending, mnVars>>
        /\ alerts' = Append(alerts, AlertBox("Error", "Note cannot be empty", ""))
    /\ C16_LabelInvalid =>
        /\ UNCHANGED <<pending, jsmVars>>
        /\ alerts' = Append(alerts, AlertBox("Error", "Status label is required", ""))
    /\ C16_QuoteInvalid =>
        /\ UNCHANGED <<pending, alerts, qf_formData, qf_loading>>
        /\ qf_error' = "Labor cost, estimated hours, and total cost are required"
        /\ qf_success' = ""

\* C16, amended: a validation failure starts no external call; in
\* handleCancel, handleAddNote and handleAddCustomStatus it raises an alert
\* and leaves the component's state unchanged; in QuoteForm.handleSubmit it
\* raises no alert, writes the message to error and clears success, leaving
\* the form data and the busy flag unchanged.
C16_ValidationFrame == [][C16_ValidationFrame_Step]_vars

\* QuoteForm was submitted with a labor cost and no estimated hours, over a
\* success message of an earlier submission
C16_Witness ==
    /\ event.op = "QF.handleSubmit"
    /\ qf_formData.laborCost = <<"5">>
    /\ qf_formData.estimatedHours = <<>>
    /\ qf_error = "Labor cost, estimated hours, and total cost are required"
    /\ pending = <<>>
    /\ ~qf_loading

\* --------------------------------------------------------------------- C17
\* one step of C17_CustomStatusNotPersisted
C17_CustomStatusNotPersisted_Step ==
    (event'.op = "JSM.handleAddCustomStatus" /\ Trim(jsm_newStatusLabel) # <<>>) =>
        /\ pending' = pending
        /\ UNCHANGED <<jsm_currentStatus, jsm_customStatuses>>
        /\ allStatuses' = allStatuses
        /\ ~jsm_showAddStatusModal'
        /\ jsm_newStatusLabel' = <<>>
        /\ jsm_newStatusDescription' = <<>>
        /\ jsm_newStatusColor' = "#2196f3"
        /\ alerts' = Append(alerts, AlertBox("Custom Status Created",
               "In the full implementation, this would save the custom status to your account.", ""))
        /\ ~jsm_loading'

\* C17: handleAddCustomStatus with a non-blank label calls nothing and
\* leaves the catalog and currentStatus unchanged; it closes the add-status
\* modal, resets label, description and colour to their defaults, raises
\* the demo notice, and the busy flag is false afterwards.
C17_CustomStatusNotPersisted == [][C17_CustomStatusNotPersisted_Step]_vars

\* a custom status with a description and a non-default colour was added
C17_Witness ==
    /\ event.op = "JSM.handleAddCustomStatus"
    /\ event.arg = "a"
    /\ alerts # <<>>
    /\ alerts[Len(alerts)].title = "Custom Status Created"
    /\ ~jsm_showAddStatusModal
    /\ jsm_newStatusColor = "#2196f3"
    /\ "a" \notin Ids(allStatuses)

\* --------------------------------------------------------------------- C18
\* one step of C18_HistoryAsSupplied
C18_HistoryAsSupplied_Step ==
    /\ event'.op = "JSM.ToggleHistory" =>
        /\ jsm_showHistory' = ~jsm_showHistory
        /\ UNCHANGED <<pending, alerts, jsmProps, jsm_loading, jsm_showAddStatusModal,
                       jsm_newStatusLabel, jsm_newStatusDescription,
                       jsm_newStatusColor>>
    /\ event'.op = "PST.ToggleHistory" =>
        /\ pst_showHistory' = ~pst_showHistory
        /\ UNCHANGED <<pending, alerts, pstProps, pst_loading, pst_selectedStatus>>

\* C18: an open history section of JobStatusManager or PaymentStatusTracker
\* has one row per supplied entry, the i-th row showing the i-th supplied
\* entry (its date and the definition or label its status resolves to),
\* with no re-sorting, filtering or de-duplication; a closed section shows
\* nothing; toggling the section changes only showHistory.
C18_HistoryAsSupplied ==
    /\ [][C18_HistoryAsSupplied_Step]_vars
    /\ [](mounted = "JSM" =>
            IF jsm_showHistory
            THEN /\ Len(JSM_historyList) = Len(jsm_statusHistory)
                 /\ \A i \in 1..Len(jsm_statusHistory) :
                        /\ JSM_historyList[i].date = jsm_statusHistory[i].date
                        /\ JSM_historyList[i].status.id = Str(jsm_statusHistory[i].status)
            ELSE JSM_historyList = <<>>)
    /\ [](mounted = "PST" =>
            IF pst_showHistory
            THEN /\ Len(PST_historyList) = Len(pst_paymentHistory)
                 /\ \A i \in 1..Len(pst_paymentHistory) :
                        /\ PST_historyList[i].date = pst_paymentHistory[i].date
                        /\ PST_historyList[i].label =
                               PST_historyLabel(pst_paymentHistory[i])
            ELSE PST_historyList = <<>>)

\* the job history, supplied out of date order and with a repeated entry,
\* has just been opened
C18_Witness ==
    /\ mounted = "JSM"
    /\ event.op = "JSM.ToggleHistory"
    /\ jsm_showHistory
    /\ Len(JSM_historyList) = 6
    /\ JSM_historyList[1].date = 3
    /\ JSM_historyList[2].date = 1
    /\ JSM_historyList[4] = JSM_historyList[1]

\* --------------------------------------------------------------------- C19
\* the continuations that handle a rejected external call of a React Native
\* component
C19_RejectedOps ==
    {fn \o ".rejected" :
        fn \in {"JSM.onUpdateStatus", "PST.onUpdateStatus", "CJM.onCancel",
                "MN.onAddNote", "MN.onDeleteNote",
                PermissionFn("camera"), PermissionFn("library"),
                LaunchFn("camera"), LaunchFn("library"),
                "PU.onUploadPhoto", "PU.onDeletePhoto"}}

\* one step of C19_RejectionsCaught
C19_RejectionsCaught_Step ==
    event'.op \in C19_RejectedOps =>
        /\ Len(alerts') = Len(alerts) + 1
        /\ alerts'[Len(alerts')].title = "Error"
        /\ unhandledRejection' = unhandledRejection

\* C19: a rejection of an awaited external function is caught inside the
\* handler and turned into an error alert; no rejection leaves a handler
\* unhandled.
C19_RejectionsCaught ==
    /\ [][C19_RejectionsCaught_Step]_vars
    /\ [](~unhandledRejection)

\* --------------------------------------------------------------------- C20
\* one step of C20_ExpansionPerNote
C20_ExpansionPerNote_Step ==
    event'.op = "MN.toggleNoteExpansion" =>
        \A i \in 1..Len(mn_existingNotes) :
            mn_existingNotes[i].id # event'.arg =>
                (isExpanded(mn_existingNotes[i])' <=> isExpanded(mn_existingNotes[i]))

\* C20 as stated: expanding or collapsing one note of MechanicNotes never
\* changes whether any other note is expanded.
C20_ExpansionPerNote == [][C20_ExpansionPerNote_Step]_vars

\* one step of C20_SingleExpandedNote
C20_SingleExpandedNote_Step ==
    event'.op = "MN.toggleNoteExpansion" =>
        /\ isExpanded([id |-> event'.arg]) => mn_expandedNoteId' = "null"
        /\ ~isExpanded([id |-> event'.arg]) =>
               \A i \in 1..Len(mn_existingNotes) :
                   isExpanded(mn_existingNotes[i])' <=>
                       mn_existingNotes[i].id = event'.arg
        /\ UNCHANGED <<pending, alerts, mnProps, mn_newNote, mn_loading>>

\* C20, amended: MechanicNotes keeps the id of one expanded note: at most
\* one note is expanded at any time; pressing "Show more" on a note expands
\* it and collapses the note that was expanded, pressing "Show less" on the
\* expanded note leaves no note expanded; a collapsed long note shows 100
\* characters and '...', an expanded or short one its whole text.
C20_SingleExpandedNote ==
    /\ [][C20_SingleExpandedNote_Step]_vars
    /\ [](mounted = "MN" =>
            /\ Cardinality({i \in 1..Len(mn_existingNotes) :
                               isExpanded(mn_existingNotes[i])}) <= 1
            /\ \A i \in 1..Len(mn_existingNotes) :
                   LET item == mn_existingNotes[i]
                   IN  displayLength(item) =
                           IF item.length > 100 /\ mn_expandedNoteId # item.id
                           THEN 103 ELSE item.length)

\* "Show more" was pressed on n3: n3 is shown in full, the long note n2 is
\* truncated
C20_Witness ==
    /\ event.op = "MN.toggleNoteExpansion"
    /\ event.arg = "n3"
    /\ mn_expandedNoteId = "n3"
    /\ displayLength(mn_existingNotes[3]) = 120
    /\ displayLength(mn_existingNotes[2]) = 103

\* --------------------------------------------------------------------- C21
\* one step of C21_AddNoteOutcome
C21_AddNoteOutcome_Step ==
    /\ (event'.op = "MN.handleAddNote" /\ Trim(mn_newNote) # <<>>) =>
        /\ Len(pending') = Len(pending) + 1
        /\ pending'[Len(pending')].fn = "MN.onAddNote"
        /\ pending'[Len(pending')].arg.text = Str(Trim(mn_newNote))
        /\ pending'[Len(pending')].arg.text # ""
    /\ event'.op = "MN.onAddNote.resolved" =>
        /\ event'.arg.val => mn_newNote' = <<>>
        /\ ~event'.arg.val => mn_newNote' = mn_newNote
        /\ alerts' = alerts
    /\ event'.op = "MN.onAddNote.rejected" =>
        /\ mn_newNote' = mn_newNote
        /\ alerts' = Append(alerts, AlertBox("Error", "Failed to add note", ""))

\* C21: handleAddNote hands onAddNote the trimmed, non-empty input; when
\* the call resolves the input is cleared if the value is truthy and kept
\* if it is falsy, with no alert; when the call rejects the input is kept
\* and the failure alert is raised.
C21_AddNoteOutcome ==
    /\ [][C21_AddNoteOutcome_Step]_vars
    /\ [](\A i \in 1..Len(pending) :
              pending[i].fn = "MN.onAddNote" => pending[i].arg.text # "")

\* onAddNote(" a" trimmed to "a") returned false and the input still holds
\* " a"
C21_Witness ==
    /\ event.op = "MN.onAddNote.resolved"
    /\ ~event.arg.val
    /\ event.arg.arg.text = "a"
    /\ mn_newNote = <<" ", "a">>
    /\ alerts = <<>>
    /\ ~mn_loading


\* ------------------------------------------------------------------ C22
LPC_CallInFlight ==
    \E i \in 1..Len(pending) : pending[i].fn = "LPC.processLicensePlateCapture"

C22_StepMachine_Step ==
    /\ (event'.op = "LPC.handleCapture") =>
            /\ lpc_step = "capture"
            /\ lpc_step' = "processing"
            /\ lpc_loading'
    /\ (lpc_step' = "processing" /\ lpc_step # "processing") =>
            event'.op = "LPC.handleCapture"
    /\ (lpc_step' = "results" /\ lpc_step # "results") =>
            event'.op = "LPC.processLicensePlateCapture.resolved"
    /\ (event'.op = "LPC.processLicensePlateCapture.resolved" /\ event'.arg.val # "null") =>
            /\ lpc_step' = "results"
            /\ lpc_vehicleInfo' = event'.arg.val
            /\ ~lpc_loading'
    /\ (event'.op = "LPC.processLicensePlateCapture.resolved" /\ event'.arg.val = "null") =>
            /\ lpc_step' = "capture"
            /\ ~lpc_loading'
    /\ (event'.op = "LPC.processLicensePlateCapture.rejected") =>
            /\ lpc_step' = "capture"
            /\ ~lpc_loading'

\* C22: LicensePlateCapture's step machine: handleCapture is pressed in step
\* 'capture' and moves to 'processing' with loading true, and nothing else
\* enters 'processing'; 'results' is entered only when
\* processLicensePlateCapture resolved; a non-null result moves to 'results',
\* a null result or a rejection moves to 'capture', each with loading false;
\* the step is 'processing' only while the call has not been resumed from,
\* and step 'results' implies vehicleInfo is non-null.
C22_StepMachine ==
    /\ [][C22_StepMachine_Step]_vars
    /\ [](mounted = "LPC" =>
            /\ lpc_step \in {"capture", "processing", "results"}
            /\ (lpc_step = "processing" => LPC_CallInFlight)
            /\ (lpc_step = "results" => lpc_vehicleInfo # "null"))

C22_Witness ==
    /\ mounted = "LPC"
    /\ event.op = "LPC.processLicensePlateCapture.rejected"
    /\ lpc_step = "capture"
    /\ ~lpc_loading
    /\ lpc_visible


\* ------------------------------------------------------------------ C23
LPC_IsReset ==
    /\ lpc_step = "capture"
    /\ lpc_capturedImage = "null"
    /\ lpc_extractedPlate = ""
    /\ lpc_vehicleInfo = "null"

\* C23: a closed LicensePlateCapture modal is reset (step 'capture', no
\* captured image, empty plate, no vehicle info): a capture still in flight
\* when the modal was closed never moves it to 'results' or repopulates it.
C23_ClosedStaysReset ==
    (mounted = "LPC" /\ ~lpc_visible) => LPC_IsReset


\* ------------------------------------------------------------------ C24
C24_CloseOnce_Step ==
    (event'.op = "CJM.onCancel.rejected" /\ ~cjm_visible) => alerts' = alerts

\* C24: in CancelJobModal onClose is invoked at most once per opening of the
\* modal, and a rejected onCancel raises no alert once the modal is closed,
\* whatever the order of the header close button, the back request and the
\* settlement of the pending call.
C24_CloseOnce ==
    /\ [](mounted = "CJM" => cjm_onCloseCalls <= 1)
    /\ [][C24_CloseOnce_Step]_vars


\* ------------------------------------------------------------------ C25
\* a call of one of the named functions has been started and its handler
\* has not resumed from it
Outstanding(fns) == \E i \in 1..Len(pending) : pending[i].fn \in fns

C25_MN_Busy ==
    (mounted = "MN" /\ Outstanding({"MN.onAddNote", "MN.onDeleteNote"})) => mn_loading

C25_PU_Busy ==
    (mounted = "PU" /\ Outstanding({"PU.onUploadPhoto", "PU.onDeletePhoto"})) => pu_uploading

C25_JSM_Busy ==
    (mounted = "JSM" /\ Outstanding({"JSM.onUpdateStatus"})) => jsm_loading

\* C25: in MechanicNotes, PhotoUpload and JobStatusManager the busy flag
\* (loading / uploading) is true whenever a call started by the component is
\* outstanding: no completion clears it while another call is in flight.
C25_BusyWhileOutstanding ==
    /\ C25_MN_Busy
    /\ C25_PU_Busy
    /\ C25_JSM_Busy


\* ------------------------------------------------------------------ C26
\* C26: with isMechanic false JobStatusManager and PaymentStatusTracker have
\* no onUpdateStatus call; with readOnly true MechanicNotes has no onAddNote
\* or onDeleteNote call and PhotoUpload no onUploadPhoto or onDeletePhoto
\* call, and none of them has the confirmation dialog of a deletion open.
C26_RoleGated ==
    /\ (mounted = "JSM" /\ ~jsm_isMechanic) => ~Outstanding({"JSM.onUpdateStatus"})
    /\ (mounted = "PST" /\ ~pst_isMechanic) => ~Outstanding({"PST.onUpdateStatus"})
    /\ (mounted = "MN" /\ mn_readOnly) =>
            /\ ~Outstanding({"MN.onAddNote", "MN.onDeleteNote"})
            /\ \A i \in 1..Len(alerts) : alerts[i].title # "Delete Note"
    /\ (mounted = "PU" /\ pu_readOnly) =>
            /\ ~Outstanding({"PU.onUploadPhoto", "PU.onDeletePhoto"})
            /\ \A i \in 1..Len(alerts) : alerts[i].title # "Delete Photo"

\* a read-only MechanicNotes with notes, after the user expanded one
C26_Witness ==
    /\ mounted = "MN"
    /\ mn_readOnly
    /\ Len(mn_existingNotes) > 0
    /\ event.op = "MN.toggleNoteExpansion"
    /\ pending = <<>>


\* ------------------------------------------------------------------ C27
C27_OnePollingTimer_Step ==
    event'.op = "LCW.PollTick" =>
        /\ lcw_currentSession # "null"
        /\ event'.arg = lcw_currentSession

C28_ClosedStaysClosed_Step ==
    event'.op = "LCW.closeChatSession.resolved" =>
        /\ lcw_currentSession' = "null"
        /\ ~lcw_isExpanded'
        /\ lcw_messages' = {}

\* C28: when closeChatSession has resolved the current session is unset, the
\* chat window collapsed and the message list empty, and the list never
\* holds messages of a session closed this way unless the user selected the
\* session again.
C28_ClosedStaysClosed ==
    /\ [][C28_ClosedStaysClosed_Step]_vars
    /\ [](mounted = "LCW" => lcw_messages \cap lcw_closed = {})


\* ------------------------------------------------------------------ C29
\* the markers of a job that are on the map
Attached(job) ==
    {i \in 1..Len(ljm_markers) : ljm_markers[i].job = job /\ ljm_markers[i].attached}

\* C29: the markers LiveJobMap has on the map are exactly one for each job
\* of the most recent location list: a job of the list has one attached
\* marker, never two, and a job absent from it has none.
C29_OneMarkerPerJob ==
    mounted = "LJM" =>
        \A job \in JobIds :
            Cardinality(Attached(job)) = (IF job \in ljm_latest THEN 1 ELSE 0)


\* ------------------------------------------------------------------ C30
ProtectedPages == {PageOf(path) : path \in ProtectedPaths}

C30_RoutesGuarded_Step ==
    /\ (event'.op = "APP.Navigate" /\ ~app_loading /\ app_user = "null"
            /\ event'.arg \in ProtectedPaths) => app_path' = "/login"
    /\ (event'.op = "APP.Navigate" /\ ~app_loading /\ app_user # "null"
            /\ event'.arg \in PublicPaths) => app_path' = "/dashboard"
    /\ (event'.op = "APP.AuthStateChanged" /\ event'.arg = "null"
            /\ app_path \in ProtectedPaths) => app_path' = "/login"
    /\ (event'.op = "APP.AuthStateChanged" /\ event'.arg # "null"
            /\ app_path \in PublicPaths) => app_path' = "/dashboard"

\* C30: while the authentication state is loading App renders no route;
\* afterwards, with user null, it renders no protected page and no
\* LiveChatWidget and a protected location has been replaced by /login; with
\* a user, /login and /signup have been replaced by /dashboard.
C30_RoutesGuarded ==
    /\ [](mounted = "APP" =>
            /\ app_loading => (Rendered.kind = "loading" /\ ~WidgetRendered)
            /\ (~app_loading /\ app_user = "null") =>
                    /\ ~(Rendered.kind = "page" /\ Rendered.name \in ProtectedPages)
                    /\ ~WidgetRendered
                    /\ app_path \notin ProtectedPaths
            /\ (~app_loading /\ app_user # "null") => app_path \notin PublicPaths
            /\ ~app_loading => Rendered.kind # "navigate")
    /\ [][C30_RoutesGuarded_Step]_vars

\* the user signed out while on /job-map and is on /login
C30_Witness ==
    /\ mounted = "APP"
    /\ event = Ev("APP.AuthStateChanged", "null")
    /\ ~app_loading
    /\ app_path = "/login"
    /\ Rendered = Page("Login")

====
